---------------------------- MODULE Spec2Model ----------------------------
(***************************************************************************)
(* Model of spikeinterface/sortingcomponents/motion_estimation.py and of   *)
(* the chunk writer of spikeinterface/core/zarrextractors.py.              *)
(*                                                                         *)
(* Arrays are sequences (index 1 is numpy index 0).  Lengths are integers  *)
(* in micrometres, sample indices are integers.  Values that numpy keeps   *)
(* as floats and that need not be integers (means, interpolated motion)    *)
(* are exact fractions <<num, den>> with den > 0, in lowest terms.         *)
(*                                                                         *)
(* The module holds several specifications, one per component:             *)
(*   SpecBins      get_spatial_bin_edges                                   *)
(*   SpecHist      make_2d_motion_histogram                                *)
(*   SpecPairwise  compute_pairwise_displacement / normxcorr1d             *)
(*   SpecClean     clean_motion_vector                                     *)
(*   SpecEstimate  estimate_motion (front end and post-processing)         *)
(*   SpecCall      estimate_motion (validation, parameters, diagnostics)   *)
(*   SpecWindows   the per-window loops of the two methods                 *)
(*   SpecCovs      iterative_template_registration (block covariances)     *)
(*   SpecZarr      core/zarrextractors.py, _write_zarr_chunk               *)
(*   SpecIterative iterative_template_registration (rounds and shifts)     *)
(*   SpecFrame     estimate_motion (which arrays the stages write)         *)
(*   SpecConv      scipy_conv1d (padding modes)                            *)
(*   SpecZarrWrite core/zarrextractors.py, writing to a zarr group         *)
(***************************************************************************)
EXTENDS Integers, Sequences, FiniteSets, TLC

VARIABLES
    pc,                  \* position of the component under study
    \* ---- probe / spatial binning
    contact_pos,         \* probe.contact_positions[:, dim]  (sequence, um)
    margin_um,
    bin_um,
    spatial_bin_edges,   \* result of get_spatial_bin_edges
    \* ---- 2d histogram
    rec,                 \* recording: [fs, num_samples]
    bin_sample_size,     \* int(bin_duration_s * fs)
    peaks,               \* sequence of [sample_ind, amplitude, loc]
    weight_with_amplitude,
    motion_histogram,    \* [time bin][spatial bin] -> fraction
    sample_bin_edges,
    bin_duration_s,      \* bin duration, in quarters of a second
    \* ---- pairwise displacement
    motion_hist,         \* [time bin][spatial bin] -> count (windowed histogram)
    pw_args,             \* keyword arguments of compute_pairwise_displacement
    pairwise_displacement,   \* [i][j] -> displacement in um
    correlation,         \* [i][j] -> <<c, v>>, the value c / sqrt(v) (0 if v = 0)
    \* ---- clean_motion_vector
    motion,              \* [time bin][column] -> fraction (um), the first input
    speed_threshold,     \* um / s
    motion_clean,        \* the array returned by the last call
    mask,                \* [column][time bin] -> retained?, of the last call
    clean_calls,         \* number of calls made
    \* ---- estimate_motion
    cfg,                 \* the keyword arguments of estimate_motion
    non_rigid_windows,   \* [window][spatial bin] -> q, the weight being exp(-q)
    windows_norm,        \* the renormalized window array of the upsampling
    spatial_bins_non_rigid,  \* centers, in half micrometres
    temporal_hist_bin_edges, \* in quarters of a second
    temporal_bins,           \* in quarters of a second
    est_motion,          \* [time bin][column] -> "fin" or "nan"
    window_slices,       \* [window] -> spatial bins its estimate uses
    \* ---- estimate_motion: arguments, control flow and diagnostics
    call,                \* the arguments of the call
    method_kwargs_,      \* the dict built by init_kwargs_dict
    extra_check,         \* the diagnostics dict
    trace,               \* the computations performed so far, in order
    run_params,          \* parameters the algorithm ran with
    raised,              \* the exception raised: <<>> or <<type, option named>>
    returned,            \* number of values returned (0: nothing returned)
    win_index,           \* index of the window loop of the decentralized method
    \* ---- the per-window loops of the two methods
    win_in,              \* method, schedule and per-window inputs
    wpc,                 \* [window] -> position of its iteration
    win_motion,          \* [window] -> one_motion, the local result of its iteration
    best_shifts,         \* last row of best_shifts (one entry per time bin)
    motion_list,         \* the list `motion` of the decentralized method
    optimal_shift_indices,   \* [window] -> column, None while unset
    done_order,          \* windows in the order their iterations completed
    win_result,          \* the assembled array: [window position] -> column
    \* ---- iterative_template_registration: block covariances
    shift_covs_block,        \* [shift][time bin][window] -> covariance
    shift_covs_block_smooth, \* the smoothed copy, None while unset
    returned_covs,           \* the third value returned, None while unset
    \* ---- zarrextractors: chunked writing of traces
    zarr_in,             \* recording and the chunks handed to the workers
    zarr_datasets,       \* [segment][frame + 1] -> stored value
    zarr_jobs,           \* chunks <<segment_index, start_frame, end_frame>> not yet taken
    zarr_workers,        \* [worker] -> None, or the call in progress
    zarr_writes,         \* [segment][frame + 1] -> number of writes so far
    \* ---- iterative_template_registration: rigid rounds and block shifts
    it_args,             \* num_iterations, num_shifts_global, num_shifts_block, windows
    spikecounts_hist_images, \* [time bin][spatial bin] -> count (one amplitude bin)
    Fg,                  \* working frames: [time bin][spatial bin], scaled
    F0,                  \* target frame: [spatial bin], scaled
    iteration,           \* rounds of the rigid loop completed
    it_log,              \* <<rounds that computed covariances, rounds that aligned>>
    imax_block,          \* [window][time bin] -> arg-max index of the upsampled curve
    window_index,        \* windows of the last loop completed
    \* ---- estimate_motion: arrays as objects, names as references
    fr_in,               \* method, upsampling, and the arrays as constructed
    heap,                \* [reference] -> array
    refs,                \* [name] -> reference, 0 while unbound
    fr_win,              \* windows of the decentralized loop completed
    \* ---- scipy_conv1d with its padding modes
    conv_in,             \* input row, kernel row and padding of the call
    conv_out,            \* None, or the outcome: error flag and output row
    \* ---- zarrextractors: writing a sorting or a recording to a zarr group
    zw_in,               \* what is written, the caller's kwargs, fields, segments
    zw_kwargs,           \* zarr_kwargs of add_recording_to_zarr_group
    zw_compressor,       \* local name compressor of add_sorting_to_zarr_group
    zw_group,            \* datasets created so far: <<name, compressor>>
    zw_raised,           \* None, or the exception raised
    zw_i                 \* loop position (fields or segments done)

binVars  == <<contact_pos, margin_um, bin_um, spatial_bin_edges>>
histVars == <<rec, bin_sample_size, peaks, weight_with_amplitude,
              motion_histogram, sample_bin_edges, bin_duration_s>>
pwVars == <<motion_hist, pw_args, pairwise_displacement, correlation>>
cleanVars == <<motion, speed_threshold, motion_clean, mask, clean_calls>>
estVars == <<cfg, non_rigid_windows, windows_norm, spatial_bins_non_rigid,
             temporal_hist_bin_edges, temporal_bins, est_motion, window_slices>>
callVars == <<call, method_kwargs_, extra_check, trace, run_params, raised,
              returned, win_index>>
winVars == <<win_in, wpc, win_motion, best_shifts, motion_list,
             optimal_shift_indices, done_order, win_result>>
covVars == <<shift_covs_block, shift_covs_block_smooth, returned_covs>>
zarrVars == <<zarr_in, zarr_datasets, zarr_jobs, zarr_workers, zarr_writes>>
itVars == <<it_args, spikecounts_hist_images, Fg, F0, iteration, it_log,
            imax_block, window_index>>
frVars == <<fr_in, heap, refs, fr_win>>
convVars == <<conv_in, conv_out>>
zwVars == <<zw_in, zw_kwargs, zw_compressor, zw_group, zw_raised, zw_i>>
moreVars == <<itVars, frVars, convVars, zwVars>>
restVars == <<callVars, winVars, covVars, zarrVars, moreVars>>
vars == <<pc, binVars, histVars, pwVars, cleanVars, estVars, restVars>>

\* an optional value: None, or Some(v)
None == <<>>

Some(v) == <<v>>

----------------------------------------------------------------------------
(* Bounds of the model                                                     *)

MaxPos == 4          \* contact positions range over 0..MaxPos (SpecBins)
MaxMargin == 2       \* margin_um ranges over 0..MaxMargin (SpecBins)
MaxBinUm == 3        \* bin_um ranges over 1..MaxBinUm (SpecBins)
MaxPeaks == 3        \* number of peaks handed to the histogram (SpecHist)
NumTimeBins == 2     \* time bins of the windowed histogram (SpecPairwise)
NumSpatialBins == 3  \* spatial bins of the windowed histogram (SpecPairwise)
MaxMass == 2         \* total count of the windowed histogram (SpecPairwise)
MaxFrames == 3       \* frames of the first segment written to zarr (SpecZarr)
MaxWindows == 3      \* non-rigid windows of the per-window loops (SpecWindows)
MaxCleanBins == 5    \* time bins of the motion handed to the cleaning (SpecClean)
MaxIterations == 3   \* num_iterations of the rigid loop (SpecIterative)
MaxConvLen == 4      \* length of the input row of scipy_conv1d (SpecConv)
MaxKernel == 3       \* kernel size of scipy_conv1d (SpecConv)

----------------------------------------------------------------------------
(* Arithmetic helpers                                                      *)

Abs(x) == IF x < 0 THEN -x ELSE x

Min2(a, b) == IF a <= b THEN a ELSE b

Max2(a, b) == IF a >= b THEN a ELSE b

\* floor division and ceiling division for a positive divisor
FloorDiv(a, b) == a \div b

CeilDiv(a, b) == -((-a) \div b)

RECURSIVE GCD(_, _)
GCD(a, b) == IF b = 0 THEN a ELSE GCD(b, a % b)

\* fraction in lowest terms with a positive denominator
Frac(n, d) ==
    LET s == IF d < 0 THEN -1 ELSE 1
        g == GCD(Abs(n), Abs(d))
    IN  <<(s * n) \div g, (s * d) \div g>>

FInt(n) == <<n, 1>>

FAdd(a, b) == Frac(a[1] * b[2] + b[1] * a[2], a[2] * b[2])

FSub(a, b) == Frac(a[1] * b[2] - b[1] * a[2], a[2] * b[2])

FLess(a, b) == a[1] * b[2] < b[1] * a[2]

FAbs(a) == <<Abs(a[1]), a[2]>>

RECURSIVE SeqSum(_)
SeqSum(s) == IF s = <<>> THEN 0 ELSE Head(s) + SeqSum(Tail(s))

RECURSIVE FSeqSum(_)
FSeqSum(s) == IF s = <<>> THEN FInt(0) ELSE FAdd(Head(s), FSeqSum(Tail(s)))

RECURSIVE SeqMin(_)
SeqMin(s) == IF Len(s) = 1 THEN s[1] ELSE Min2(s[1], SeqMin(Tail(s)))

RECURSIVE SeqMax(_)
SeqMax(s) == IF Len(s) = 1 THEN s[1] ELSE Max2(s[1], SeqMax(Tail(s)))

----------------------------------------------------------------------------
(* numpy helpers                                                           *)

\* np.arange(start, stop, step) for step > 0: start, start+step, ... < stop
RECURSIVE ArangeFrom(_, _, _, _)
ArangeFrom(acc, x, stop, step) ==
    IF x >= stop THEN acc ELSE ArangeFrom(Append(acc, x), x + step, stop, step)

Arange(start, stop, step) == ArangeFrom(<<>>, start, stop, step)

\* bin of x among the edges as np.histogramdd assigns it: bin k holds
\* edges[k] <= x < edges[k+1], the last bin is closed on the right, a point
\* outside [edges[1], edges[last]] is dropped (0).  A variant that leaves
\* the last bin open on the right comes first.
DigitizeOpenLast(x, edges) ==
    LET nb == Len(edges) - 1
    IN  IF nb < 1 \/ x < edges[1] \/ x >= edges[nb + 1] THEN 0
        ELSE CHOOSE k \in 1..nb : edges[k] <= x /\ x < edges[k + 1]

Digitize(x, edges) ==
    LET nb == Len(edges) - 1
    IN  IF nb < 1 \/ x < edges[1] \/ x > edges[nb + 1] THEN 0
        ELSE IF x = edges[nb + 1] THEN nb
        ELSE CHOOSE k \in 1..nb : edges[k] <= x /\ x < edges[k + 1]

----------------------------------------------------------------------------
(* get_spatial_bin_edges                                                   *)

\* a variant that stops the range at max_ instead of max_ + bin_um
SpatialBinEdgesShort(cpos, margin, bin) ==
    Arange(SeqMin(cpos) - margin, SeqMax(cpos) + margin, bin)

get_spatial_bin_edges(cpos, margin, bin) ==
    LET min_ == SeqMin(cpos) - margin
        max_ == SeqMax(cpos) + margin
    IN  Arange(min_, max_ + bin, bin)

BinsIdle ==
    /\ contact_pos = <<0>>
    /\ margin_um = 0
    /\ bin_um = 1
    /\ spatial_bin_edges = <<>>

HistIdle ==
    /\ rec = [fs |-> 1, num_samples |-> 1]
    /\ bin_duration_s = 4
    /\ bin_sample_size = 1
    /\ peaks = <<>>
    /\ weight_with_amplitude = FALSE
    /\ motion_histogram = <<>>
    /\ sample_bin_edges = <<>>

PwIdle ==
    /\ motion_hist = <<>>
    /\ pw_args = None
    /\ pairwise_displacement = <<>>
    /\ correlation = <<>>

CleanIdle ==
    /\ motion = <<>>
    /\ speed_threshold = 0
    /\ motion_clean = <<>>
    /\ mask = <<>>
    /\ clean_calls = 0

EstIdle ==
    /\ cfg = None
    /\ non_rigid_windows = <<>>
    /\ windows_norm = None
    /\ spatial_bins_non_rigid = <<>>
    /\ temporal_hist_bin_edges = <<>>
    /\ temporal_bins = <<>>
    /\ est_motion = <<>>
    /\ window_slices = <<>>

CallIdle ==
    /\ call = None
    /\ method_kwargs_ = None
    /\ extra_check = None
    /\ trace = <<>>
    /\ run_params = None
    /\ raised = None
    /\ returned = 0
    /\ win_index = 0

WinIdle ==
    /\ win_in = None
    /\ wpc = <<>>
    /\ win_motion = <<>>
    /\ best_shifts = <<>>
    /\ motion_list = <<>>
    /\ optimal_shift_indices = <<>>
    /\ done_order = <<>>
    /\ win_result = None

CovIdle ==
    /\ shift_covs_block = <<>>
    /\ shift_covs_block_smooth = None
    /\ returned_covs = None

ZarrIdle ==
    /\ zarr_in = None
    /\ zarr_datasets = <<>>
    /\ zarr_jobs = {}
    /\ zarr_workers = <<>>
    /\ zarr_writes = <<>>

ItIdle ==
    /\ it_args = None
    /\ spikecounts_hist_images = <<>>
    /\ Fg = <<>>
    /\ F0 = <<>>
    /\ iteration = 0
    /\ it_log = <<0, 0>>
    /\ imax_block = <<>>
    /\ window_index = 0

FrIdle ==
    /\ fr_in = None
    /\ heap = <<>>
    /\ refs = None
    /\ fr_win = 0

ConvIdle ==
    /\ conv_in = None
    /\ conv_out = None

ZwIdle ==
    /\ zw_in = None
    /\ zw_kwargs = None
    /\ zw_compressor = None
    /\ zw_group = <<>>
    /\ zw_raised = None
    /\ zw_i = 0

MoreIdle == ItIdle /\ FrIdle /\ ConvIdle /\ ZwIdle

RestIdle == CallIdle /\ WinIdle /\ CovIdle /\ ZarrIdle /\ MoreIdle

InitBins ==
    /\ EstIdle
    /\ RestIdle
    /\ PwIdle
    /\ CleanIdle
    /\ pc = "bins_start"
    /\ contact_pos \in UNION {[1..n -> 0..MaxPos] : n \in 1..2}
    /\ margin_um \in 0..MaxMargin
    /\ bin_um \in 1..MaxBinUm
    /\ spatial_bin_edges = <<>>
    /\ HistIdle

GetSpatialBinEdges ==
    /\ pc = "bins_start"
    /\ spatial_bin_edges' = get_spatial_bin_edges(contact_pos, margin_um, bin_um)
    /\ pc' = "bins_done"
    /\ UNCHANGED <<contact_pos, margin_um, bin_um, histVars, pwVars, cleanVars,
                   estVars, restVars>>

NextBins == GetSpatialBinEdges

SpecBins == InitBins /\ [][NextBins]_vars


\* C9: for all contact positions, margin_um >= 0 and bin_um > 0 the edges
\* start at min(contacts) - margin_um, are bin_um apart (hence strictly
\* increasing), number ceil(((max + margin) - (min - margin)) / bin_um) + 1,
\* and the last edge is >= max(contacts) + margin_um, so that every contact
\* lies inside the binned range.
C9_SpatialBinEdges ==
    pc = "bins_done" =>
        LET e  == spatial_bin_edges
            lo == SeqMin(contact_pos) - margin_um
            hi == SeqMax(contact_pos) + margin_um
        IN  /\ Len(e) = CeilDiv(hi - lo, bin_um) + 1
            /\ e[1] = lo
            /\ \A i \in 1..(Len(e) - 1) : e[i + 1] - e[i] = bin_um /\ e[i] < e[i + 1]
            /\ e[Len(e)] >= hi
            /\ \A c \in 1..Len(contact_pos) :
                   e[1] <= contact_pos[c] /\ contact_pos[c] <= e[Len(e)]

\* the extent is not a multiple of bin_um and there are several bins
C9_Witness ==
    /\ pc = "bins_done"
    /\ ((SeqMax(contact_pos) + margin_um) - (SeqMin(contact_pos) - margin_um)) % bin_um # 0
    /\ Len(spatial_bin_edges) >= 3
    /\ margin_um > 0

----------------------------------------------------------------------------
(* make_2d_motion_histogram                                                *)

PeakLocs == {-5, 5, 20, 25}     \* peak locations, inside and outside the edges

PeakAmps == {-2, 1}             \* peak amplitudes (signed)

\* indices of the peaks np.histogramdd puts in cell (k, b)
CellPeaks(pk, sedges, xedges, k, b) ==
    {i \in 1..Len(pk) : /\ Digitize(pk[i].sample_ind, sedges) = k
                        /\ Digitize(pk[i].loc, xedges) = b}

RECURSIVE SumAbsAmp(_, _)
SumAbsAmp(pk, idx) ==
    IF idx = {} THEN 0
    ELSE LET i == CHOOSE j \in idx : TRUE
         IN  Abs(pk[i].amplitude) + SumAbsAmp(pk, idx \ {i})

\* int(bin_duration_s * fs); bin_duration_s is in quarters of a second
BinSampleSize(dur, fs) == (dur * fs) \div 4

SampleBinEdges(num_samples, bss) == Arange(0, num_samples + bss, bss)

\* the histogram: counts, or with weight_with_amplitude the summed absolute
\* amplitudes divided by the count of the cell (count 0 replaced by 1)
make_2d_motion_histogram(pk, sedges, xedges, weighted) ==
    [k \in 1..(Len(sedges) - 1) |->
        [b \in 1..(Len(xedges) - 1) |->
            LET cell == CellPeaks(pk, sedges, xedges, k, b)
                cnt  == Cardinality(cell)
            IN  IF weighted
                THEN Frac(SumAbsAmp(pk, cell), IF cnt = 0 THEN 1 ELSE cnt)
                ELSE FInt(cnt)]]

InitHist ==
    /\ EstIdle
    /\ RestIdle
    /\ PwIdle
    /\ CleanIdle
    /\ pc = "hist_peaks"
    /\ contact_pos = <<0, 20>>
    /\ margin_um = 0
    /\ bin_um = 10
    /\ spatial_bin_edges = get_spatial_bin_edges(contact_pos, margin_um, bin_um)
    /\ rec \in [fs : {2}, num_samples : {3, 4}]
    /\ bin_duration_s = 4
    /\ bin_sample_size = 0
    /\ peaks = <<>>
    /\ weight_with_amplitude = FALSE
    /\ motion_histogram = <<>>
    /\ sample_bin_edges = <<>>

\* the caller's peak array grows by one peak; peaks are ordered by sample index
AppendPeak(s, a, l) ==
    /\ pc = "hist_peaks"
    /\ Len(peaks) < MaxPeaks
    /\ s < rec.num_samples
    /\ peaks # <<>> => peaks[Len(peaks)].sample_ind <= s
    /\ peaks' = Append(peaks, [sample_ind |-> s, amplitude |-> a, loc |-> l])
    /\ UNCHANGED <<pc, binVars, rec, bin_sample_size, weight_with_amplitude,
                   motion_histogram, sample_bin_edges, bin_duration_s, pwVars,
                   cleanVars, estVars, restVars>>

Make2dMotionHistogram(weighted) ==
    /\ pc = "hist_peaks"
    /\ LET bss == BinSampleSize(bin_duration_s, rec.fs)
           sedges == SampleBinEdges(rec.num_samples, bss)
       IN  /\ bin_sample_size' = bss
           /\ sample_bin_edges' = sedges
           /\ motion_histogram' =
                  make_2d_motion_histogram(peaks, sedges, spatial_bin_edges, weighted)
    /\ weight_with_amplitude' = weighted
    /\ pc' = "hist_done"
    /\ UNCHANGED <<binVars, rec, peaks, bin_duration_s, pwVars, cleanVars, estVars, restVars>>

NextHist ==
    \/ \E s \in 0..3, a \in PeakAmps, l \in PeakLocs : AppendPeak(s, a, l)
    \/ \E w \in BOOLEAN : Make2dMotionHistogram(w)

SpecHist == InitHist /\ [][NextHist]_vars

\* the histogram summed over the spatial axis, per time bin
SpatialSum(k) ==
    FSeqSum([b \in 1..Len(motion_histogram[k]) |-> motion_histogram[k][b]])

\* peaks whose sample index falls in time bin k (the last bin is closed)
PeaksInTimeBin(k) ==
    {i \in 1..Len(peaks) :
        /\ sample_bin_edges[k] <= peaks[i].sample_ind
        /\ \/ peaks[i].sample_ind < sample_bin_edges[k + 1]
           \/ k = Len(sample_bin_edges) - 1
              /\ peaks[i].sample_ind = sample_bin_edges[k + 1]}

InSpatialRange(i) ==
    /\ spatial_bin_edges[1] <= peaks[i].loc
    /\ peaks[i].loc <= spatial_bin_edges[Len(spatial_bin_edges)]

\* C5 as stated: whatever the peak locations, the spatial sum is the number
\* of peaks of the time bin (weighted: the sum of their absolute amplitudes).
C5_RoundTripAnyLocation ==
    pc = "hist_done" =>
        \A k \in 1..Len(motion_histogram) :
            SpatialSum(k) =
                IF weight_with_amplitude
                THEN FInt(SumAbsAmp(peaks, PeaksInTimeBin(k)))
                ELSE FInt(Cardinality(PeaksInTimeBin(k)))

\* C5 amended: without amplitude weighting the spatial sum is the number of
\* peaks of the time bin whose location lies within [first edge, last edge];
\* with amplitude weighting it is the sum over the spatial bins of the mean
\* absolute amplitude of the peaks of that (time bin, spatial bin) cell.
C5_RoundTripInRange ==
    pc = "hist_done" =>
        \A k \in 1..Len(motion_histogram) :
            LET inr == {i \in PeaksInTimeBin(k) : InSpatialRange(i)}
                nb  == Len(spatial_bin_edges) - 1
                inb(b) == {i \in inr :
                             /\ spatial_bin_edges[b] <= peaks[i].loc
                             /\ \/ peaks[i].loc < spatial_bin_edges[b + 1]
                                \/ b = nb /\ peaks[i].loc = spatial_bin_edges[nb + 1]}
            IN  IF weight_with_amplitude
                THEN SpatialSum(k) =
                       FSeqSum([b \in 1..nb |->
                          IF inb(b) = {} THEN FInt(0)
                          ELSE Frac(SumAbsAmp(peaks, inb(b)), Cardinality(inb(b)))])
                ELSE SpatialSum(k) = FInt(Cardinality(inr))

\* a histogram of three peaks, one on the last spatial edge and one outside
C5_Witness ==
    /\ pc = "hist_done"
    /\ Len(peaks) = 3
    /\ \E i \in 1..3 : peaks[i].loc = spatial_bin_edges[Len(spatial_bin_edges)]
    /\ \E i \in 1..3 : ~InSpatialRange(i)
    /\ \E k \in 1..Len(motion_histogram) : SpatialSum(k)[1] >= 2


----------------------------------------------------------------------------
(* scipy_conv1d, normxcorr1d, compute_pairwise_displacement                *)

\* the sequence s as an explicit tuple
Tup(s) == s \o <<>>

Zeros(n) == Tup([i \in 1..n |-> 0])

Ones(n) == Tup([i \in 1..n |-> 1])

Square(x) == Tup([i \in 1..Len(x) |-> x[i] * x[i]])

\* np.pad(input, (padding, padding)) along the last axis
Pad(input, padding) == Zeros(padding) \o input \o Zeros(padding)

\* scipy_conv1d for one input row and one kernel with an integer padding:
\* scipy.signal.correlate(padded, weights, mode='valid'), whose entry t is
\* the sum over k of padded[t + k] * weights[k]
scipy_conv1d(input, weights, padding) ==
    LET padded == Pad(input, padding)
        kernel_size == Len(weights)
        length_out == Len(input) - (kernel_size - 1) + 2 * padding
    IN  Tup([t \in 1..length_out |->
            SeqSum([k \in 1..kernel_size |-> padded[t + k - 1] * weights[k]])])

\* a variant of normxcorr1d that leaves out the subtraction of the means
NormXCorrNoMean(template, x, padding) ==
    LET ones == Ones(Len(template))
        N    == scipy_conv1d(ones, ones, padding)
        Sxt  == scipy_conv1d(x, template, padding)
        Stt  == scipy_conv1d(ones, Square(template), padding)
        Sxx  == scipy_conv1d(Square(x), ones, padding)
    IN  Tup([l \in 1..Len(N) |->
            LET v == (N[l] * Sxx[l]) * (N[l] * Stt[l])
            IN  IF v = 0 THEN <<0, 0>> ELSE <<N[l] * Sxt[l], v>>])

\* normxcorr1d for one template row and one input row.  With N the number
\* of overlapping points at a lag, St, Sx the sums of template and x over
\* the overlap, Sxt, Stt, Sxx the sums of products:
\*     cov   = Sxt/N - (Sx/N)(St/N)
\*     var_t = Stt/N - (St/N)^2,   var_x = Sxx/N - (Sx/N)^2
\*     corr  = cov / sqrt(var_x * var_t)
\*           = (N Sxt - Sx St) / sqrt((N Sxx - Sx^2)(N Stt - St^2))
\* kept as <<c, v>> for c / sqrt(v); a non-finite value (v = 0) is set to 0.
normxcorr1d(template, x, padding) ==
    LET ones == Ones(Len(template))
        N    == scipy_conv1d(ones, ones, padding)
        Et   == scipy_conv1d(ones, template, padding)
        Ex   == scipy_conv1d(x, ones, padding)
        Sxt  == scipy_conv1d(x, template, padding)
        Stt  == scipy_conv1d(ones, Square(template), padding)
        Sxx  == scipy_conv1d(Square(x), ones, padding)
    IN  Tup([l \in 1..Len(N) |->
            LET c == N[l] * Sxt[l] - Ex[l] * Et[l]
                v == (N[l] * Sxx[l] - Ex[l] * Ex[l]) * (N[l] * Stt[l] - Et[l] * Et[l])
            IN  IF v = 0 THEN <<0, 0>> ELSE <<c, v>>])

CorrSign(a) == IF a[2] = 0 \/ a[1] = 0 THEN 0 ELSE IF a[1] > 0 THEN 1 ELSE -1

\* a < b for correlation values <<c, v>>
CorrLess(a, b) ==
    LET sa == CorrSign(a)
        sb == CorrSign(b)
    IN  IF sa # sb THEN sa < sb
        ELSE IF sa = 0 THEN FALSE
        ELSE IF sa > 0 THEN a[1] * a[1] * b[2] < b[1] * b[1] * a[2]
        ELSE a[1] * a[1] * b[2] > b[1] * b[1] * a[2]

\* a > thr for a correlation value a and a fraction thr >= 0
CorrGreater(a, thr) ==
    /\ CorrSign(a) > 0
    /\ a[1] * a[1] * thr[2] * thr[2] > thr[1] * thr[1] * a[2]

CorrIsOne(a) == a[1] > 0 /\ a[1] * a[1] = a[2]

CorrZero == <<0, 0>>

CorrOne == <<1, 1>>

\* np.argmax: the first index holding the maximum
ArgMax(corr) ==
    CHOOSE i \in 1..Len(corr) :
        /\ \A j \in 1..Len(corr) : ~CorrLess(corr[i], corr[j])
        /\ \A j \in 1..(i - 1) : CorrLess(corr[j], corr[i])

\* a variant of the number of shifts that never looks at
\* max_displacement_um
NumShiftsHalfOnly(num_bins, bin, max_displacement_um) == num_bins \div 2

\* the number n of shifts looked at on each side
NumShifts(num_bins, bin, max_displacement_um) ==
    IF max_displacement_um = None THEN num_bins \div 2
    ELSE Min2(num_bins \div 2, max_displacement_um[1] \div bin)

\* possible_displacement[ind] of np.arange(-n, n + 1) * bin_um; a variant
\* that is off by one index comes first
PossibleDisplacementOffByOne(ind, n, bin) == (ind - n) * bin

PossibleDisplacement(ind, n, bin) == (ind - 1 - n) * bin

\* the best lag of input row x against template row t, and its correlation
BestLag(template, x, n) ==
    LET corr == normxcorr1d(template, x, n)
        ind  == ArgMax(corr)
    IN  [ind |-> ind, max_corr |-> corr[ind]]

\* dense path: for each batch of rows i : i + batch_size, every row r of the
\* batch against every template t; then the entries whose correlation is
\* not above corr_threshold are zeroed (only when corr_threshold > 0)
PairwiseDense(hist, bin, args) ==
    LET size == Len(hist)
        n    == NumShifts(Len(hist[1]), bin, args.max_displacement_um)
        batch_starts == {i \in 1..size : (i - 1) % args.batch_size = 0}
        in_batch(r)  == \E i \in batch_starts : i <= r /\ r < i + args.batch_size
        best == Tup([r \in 1..size |-> Tup([t \in 1..size |->
                    BestLag(hist[t], hist[r], n)])])
        which(r, t) == \/ args.corr_threshold[1] <= 0
                       \/ CorrGreater(best[r][t].max_corr, args.corr_threshold)
    IN  [D |-> Tup([r \in 1..size |-> Tup([t \in 1..size |->
                  IF in_batch(r) /\ which(r, t)
                  THEN PossibleDisplacement(best[r][t].ind, n, bin) ELSE 0])]),
         C |-> Tup([r \in 1..size |-> Tup([t \in 1..size |->
                  IF in_batch(r) /\ which(r, t)
                  THEN best[r][t].max_corr ELSE CorrZero])])]

\* band_width = int(np.ceil(time_horizon_s / bin_duration_s)), and a variant
\* one bin wider
BandWidthOneMore(time_horizon_s, dur) == CeilDiv(time_horizon_s, dur) + 1

BandWidth(time_horizon_s, dur) == CeilDiv(time_horizon_s, dur)

\* banded path: pairs i < j < min(size, i + band_width), stored both ways
\* when the best correlation is above corr_threshold; the diagonal holds
\* displacement 0 and correlation 1
PairwiseBanded(hist, bin, dur, args) ==
    LET size == Len(hist)
        n    == NumShifts(Len(hist[1]), bin, args.max_displacement_um)
        band_width == BandWidth(args.time_horizon_s[1], dur)
        in_band(i, j) == i < j /\ j < Min2(size + 1, i + band_width)
        best == Tup([i \in 1..size |-> Tup([j \in 1..size |->
                    IF in_band(i, j) THEN BestLag(hist[i], hist[j], n)
                    ELSE [ind |-> 0, max_corr |-> CorrZero]])])
        kept(i, j) == /\ in_band(i, j)
                      /\ CorrGreater(best[i][j].max_corr, args.corr_threshold)
    IN  [D |-> Tup([i \in 1..size |-> Tup([j \in 1..size |->
                  IF kept(i, j) THEN -PossibleDisplacement(best[i][j].ind, n, bin)
                  ELSE IF kept(j, i) THEN PossibleDisplacement(best[j][i].ind, n, bin)
                  ELSE 0])]),
         C |-> Tup([i \in 1..size |-> Tup([j \in 1..size |->
                  IF i = j THEN CorrOne
                  ELSE IF kept(i, j) THEN best[i][j].max_corr
                  ELSE IF kept(j, i) THEN best[j][i].max_corr
                  ELSE CorrZero])])]

ZeroHist(T, L) == [t \in 1..T |-> [b \in 1..L |-> 0]]

\* the histograms of T time bins and L spatial bins holding at most m peaks
RECURSIVE HistsOfMass(_, _, _)
HistsOfMass(T, L, m) ==
    IF m = 0 THEN {ZeroHist(T, L)}
    ELSE LET prev == HistsOfMass(T, L, m - 1)
         IN  prev \cup {[h EXCEPT ![t][b] = @ + 1] :
                           h \in prev, t \in 1..T, b \in 1..L}

CorrThresholds == {<<0, 1>>, <<1, 2>>}      \* corr_threshold: 0 (default), 0.5

InitPairwise ==
    /\ EstIdle
    /\ RestIdle
    /\ CleanIdle
    /\ pc = "pw_start"
    /\ contact_pos = <<0>>
    /\ margin_um = 0
    /\ bin_um = 10
    /\ spatial_bin_edges = <<>>
    /\ HistIdle
    /\ motion_hist \in HistsOfMass(NumTimeBins, NumSpatialBins, MaxMass)
    /\ pw_args = None
    /\ pairwise_displacement = <<>>
    /\ correlation = <<>>

\* compute_pairwise_displacement(method='conv') without a time horizon
ComputePairwiseDense(args) ==
    /\ pc = "pw_start"
    /\ args.time_horizon_s = None
    /\ LET r == PairwiseDense(motion_hist, bin_um, args)
       IN  /\ pairwise_displacement' = r.D
           /\ correlation' = r.C
    /\ pw_args' = args
    /\ pc' = "pw_done"
    /\ UNCHANGED <<binVars, histVars, motion_hist, cleanVars, estVars, restVars>>

\* compute_pairwise_displacement(method='conv') with time_horizon_s > 0
ComputePairwiseBanded(args) ==
    /\ pc = "pw_start"
    /\ args.time_horizon_s # None
    /\ args.time_horizon_s[1] > 0
    /\ LET r == PairwiseBanded(motion_hist, bin_um, bin_duration_s, args)
       IN  /\ pairwise_displacement' = r.D
           /\ correlation' = r.C
    /\ pw_args' = args
    /\ pc' = "pw_done"
    /\ UNCHANGED <<binVars, histVars, motion_hist, cleanVars, estVars, restVars>>

PwArgs ==
    {a \in [max_displacement_um : {None, Some(5)},
             batch_size : {1, 2},
             corr_threshold : CorrThresholds,
             time_horizon_s : {None, Some(4), Some(8)}] :
        a.time_horizon_s # None => a.batch_size = 1}

NextPairwise ==
    \/ \E args \in PwArgs : ComputePairwiseDense(args)
    \/ \E args \in PwArgs : ComputePairwiseBanded(args)

SpecPairwise == InitPairwise /\ [][NextPairwise]_vars

\* C1 as stated: the displacement matrix is antisymmetric, in the dense and
\* in the banded path, for every histogram.
C1_Antisymmetric ==
    pc = "pw_done" =>
        \A i, j \in 1..Len(pairwise_displacement) :
            pairwise_displacement[i][j] = -pairwise_displacement[j][i]


\* profile b is profile a shifted by k spatial bins (zero filled, nothing
\* of a pushed over the border)
ShiftedBy(a, b, k) ==
    /\ \A x \in 1..Len(a) :
          b[x] = IF x - k \in 1..Len(a) THEN a[x - k] ELSE 0
    /\ \A x \in 1..Len(a) : x + k \notin 1..Len(a) => a[x] = 0

\* the part of a that overlaps its copy shifted by k takes two values
OverlapNotConstant(a, k) ==
    \E x, y \in 1..Len(a) :
        /\ x + k \in 1..Len(a)
        /\ y + k \in 1..Len(a)
        /\ a[x] # a[y]

\* the pair (i, j) was compared: always in the dense path, inside the band
\* in the banded path
Compared(i, j) ==
    \/ pw_args.time_horizon_s = None
    \/ Abs(i - j) < BandWidth(pw_args.time_horizon_s[1], bin_duration_s)

ShiftsUsed == NumShifts(Len(motion_hist[1]), bin_um, pw_args.max_displacement_um)

\* number of lags at which the correlation of rows i and j equals 1
LagsOfOne(i, j) ==
    LET corr == normxcorr1d(motion_hist[j], motion_hist[i], ShiftsUsed)
    IN  Cardinality({l \in 1..Len(corr) : CorrIsOne(corr[l])})

\* C7 as stated: for every profile shape, two time bins whose profiles are
\* shifted copies (by k bins, |k| <= n) get a displacement of magnitude
\* k * bin_um within one bin and a correlation weight of 1.
C7_KnownShiftAnyProfile ==
    pc = "pw_done" =>
        \A i, j \in 1..Len(motion_hist) : \A k \in (-ShiftsUsed)..ShiftsUsed :
            (i # j /\ Compared(i, j) /\ ShiftedBy(motion_hist[i], motion_hist[j], k)) =>
                /\ Abs(Abs(pairwise_displacement[i][j]) - Abs(k) * bin_um) <= bin_um
                /\ CorrIsOne(correlation[i][j])

\* C7 amended: when the overlapping part of the profile is not constant the
\* correlation weight is 1, and the displacement has magnitude k * bin_um
\* when no other lag reaches correlation 1.
C7_KnownShift ==
    pc = "pw_done" =>
        \A i, j \in 1..Len(motion_hist) : \A k \in (-ShiftsUsed)..ShiftsUsed :
            (/\ i # j
             /\ Compared(i, j)
             /\ ShiftedBy(motion_hist[i], motion_hist[j], k)
             /\ OverlapNotConstant(motion_hist[i], k)) =>
                /\ CorrIsOne(correlation[i][j])
                /\ LagsOfOne(i, j) = 1 =>
                       Abs(pairwise_displacement[i][j]) = Abs(k) * bin_um

\* a pair of profiles shifted by one bin, recovered with weight 1
C7_Witness ==
    /\ pc = "pw_done"
    /\ ShiftsUsed >= 1
    /\ \E i, j \in 1..Len(motion_hist) : \E k \in {-1, 1} :
          /\ i # j
          /\ Compared(i, j)
          /\ ShiftedBy(motion_hist[i], motion_hist[j], k)
          /\ OverlapNotConstant(motion_hist[i], k)
          /\ LagsOfOne(i, j) = 1
          /\ Abs(pairwise_displacement[i][j]) = bin_um
          /\ CorrIsOne(correlation[i][j])


----------------------------------------------------------------------------
(* clean_motion_vector                                                     *)

\* |speed| > speed_threshold for the step from a to b (fractions, um) over
\* one bin of dur quarters of a second: |b - a| / (dur / 4) > thr.  A
\* variant that also flags a speed equal to the threshold comes first.
TooFastOrEqual(a, b, dur, thr) ==
    ~FLess(FAbs(FSub(b, a)), Frac(thr * dur, 4))

TooFast(a, b, dur, thr) ==
    FLess(Frac(thr * dur, 4), FAbs(FSub(b, a)))

\* inds: the indices t + 1 of the steps t -> t + 1 that are too fast, in
\* increasing order (np.nonzero(...) then inds += 1)
RECURSIVE FlaggedFrom(_, _, _, _)
FlaggedFrom(one_motion, t, dur, thr) ==
    IF t >= Len(one_motion) THEN <<>>
    ELSE (IF TooFast(one_motion[t], one_motion[t + 1], dur, thr)
          THEN <<t + 1>> ELSE <<>>) \o FlaggedFrom(one_motion, t + 1, dur, thr)

FlaggedInds(one_motion, dur, thr) == FlaggedFrom(one_motion, 1, dur, thr)

\* np.sum(inds[1::2] - inds[::2]): the summed lengths of the paired intervals
PairedDuration(inds) ==
    SeqSum([p \in 1..(Len(inds) \div 2) |-> inds[2 * p] - inds[2 * p - 1]])

DropLast(inds) == SubSeq(inds, 1, Len(inds) - 1)

DropFirst(inds) == SubSeq(inds, 2, Len(inds))

\* the index list the masking loop runs over: for an odd count inds0 when
\* d0 < d1, the unchanged list otherwise
IndsUsed(inds) ==
    IF Len(inds) % 2 = 1
    THEN LET inds0 == DropLast(inds)
             inds1 == DropFirst(inds)
             d0 == PairedDuration(inds0)
             d1 == PairedDuration(inds1)
         IN  IF d0 < d1 THEN inds0 ELSE inds
    ELSE inds

\* a slice that would include its end index comes first
MaskOfInclusive(inds, T) ==
    Tup([t \in 1..T |->
        ~\E p \in 1..(Len(inds) \div 2) : inds[2 * p - 1] <= t /\ t <= inds[2 * p]])

\* mask[inds[2p] : inds[2p + 1]] = False for p in range(inds.size // 2)
MaskOf(inds, T) ==
    Tup([t \in 1..T |->
        ~\E p \in 1..(Len(inds) \div 2) : inds[2 * p - 1] <= t /\ t < inds[2 * p]])

\* scipy.interpolate.interp1d over the retained points, evaluated at the
\* masked time bin t (temporal_bins are evenly spaced): linear between the
\* nearest retained neighbours; "error" when t is outside their range
Interp1d(one_motion, msk, t) ==
    LET left  == {u \in 1..(t - 1) : msk[u]}
        right == {u \in (t + 1)..Len(msk) : msk[u]}
    IN  IF left = {} \/ right = {} THEN "error"
        ELSE LET t0 == CHOOSE u \in left : \A w \in left : w <= u
                 t1 == CHOOSE u \in right : \A w \in right : u <= w
                 y0 == one_motion[t0]
                 y1 == one_motion[t1]
                 dy == FSub(y1, y0)
             IN  FAdd(y0, Frac(dy[1] * (t - t0), dy[2] * (t1 - t0)))

CleanColumnMask(one_motion, dur, thr) ==
    MaskOf(IndsUsed(FlaggedInds(one_motion, dur, thr)), Len(one_motion))

CleanColumn(one_motion, dur, thr) ==
    LET msk == CleanColumnMask(one_motion, dur, thr)
    IN  Tup([t \in 1..Len(one_motion) |->
            IF msk[t] THEN one_motion[t] ELSE Interp1d(one_motion, msk, t)])

Column(m, i) == Tup([t \in 1..Len(m) |-> m[t][i]])

\* step 1 of clean_motion_vector on every column (sigma_smooth_s = None)
clean_motion_vector(m, dur, thr) ==
    LET cols == Tup([i \in 1..Len(m[1]) |-> CleanColumn(Column(m, i), dur, thr)])
    IN  Tup([t \in 1..Len(m) |-> Tup([i \in 1..Len(m[1]) |-> cols[i][t]])])

CleanMasks(m, dur, thr) ==
    Tup([i \in 1..Len(m[1]) |-> CleanColumnMask(Column(m, i), dur, thr)])

MotionValues(ncol) == IF ncol = 1 THEN {0, 1, 3} ELSE {0, 3}

SpeedThresholds == {1, 2}

InitClean ==
    /\ EstIdle
    /\ RestIdle
    /\ pc = "clean"
    /\ BinsIdle
    /\ PwIdle
    /\ rec = [fs |-> 1, num_samples |-> 1]
    /\ bin_sample_size = 1
    /\ peaks = <<>>
    /\ weight_with_amplitude = FALSE
    /\ motion_histogram = <<>>
    /\ sample_bin_edges = <<>>
    /\ bin_duration_s \in {4, 8}
    /\ speed_threshold \in SpeedThresholds
    /\ \E T \in 2..MaxCleanBins, ncol \in {1, 2} :
          motion \in [1..T -> [1..ncol -> {FInt(v) : v \in MotionValues(ncol)}]]
    /\ motion_clean = <<>>
    /\ mask = <<>>
    /\ clean_calls = 0

\* one call of clean_motion_vector; the second call is handed the result of
\* the first
CleanMotionVector ==
    /\ pc = "clean"
    /\ clean_calls < 2
    /\ LET input == IF clean_calls = 0 THEN motion ELSE motion_clean
       IN  /\ motion_clean' = clean_motion_vector(input, bin_duration_s, speed_threshold)
           /\ mask' = CleanMasks(input, bin_duration_s, speed_threshold)
    /\ clean_calls' = clean_calls + 1
    /\ UNCHANGED <<pc, binVars, histVars, pwVars, motion, speed_threshold, estVars, restVars>>

NextClean == CleanMotionVector

SpecClean == InitClean /\ [][NextClean]_vars

\* no two consecutive time bins of m differ by more than
\* speed_threshold * bin_duration_s, in any column
NoViolation(m) ==
    \A i \in 1..Len(m[1]) : \A t \in 1..(Len(m) - 1) :
        ~FLess(Frac(speed_threshold * bin_duration_s, 4),
               FAbs(FSub(m[t + 1][i], m[t][i])))

\* C10: on an input without threshold violation the cleaning returns its
\* input, and so does a second call on that result.
C10_CleanIdempotent ==
    (pc = "clean" /\ clean_calls >= 1 /\ NoViolation(motion)) =>
        motion_clean = motion

\* two calls were made on a clean input that is not constant
C10_Witness ==
    /\ pc = "clean"
    /\ clean_calls = 2
    /\ NoViolation(motion)
    /\ Len(motion) >= 3
    /\ \E t \in 1..(Len(motion) - 1) : motion[t + 1][1] # motion[t][1]

\* C2 as stated: with an odd number of flagged indices, the masked
\* intervals are those of the choice (first or last index dropped) with the
\* smaller total duration.
C2_OddDropsSmaller ==
    (pc = "clean" /\ clean_calls = 1) =>
        \A i \in 1..Len(motion[1]) :
            LET T    == Len(motion)
                inds == FlaggedInds(Column(motion, i), bin_duration_s, speed_threshold)
                d0   == PairedDuration(DropLast(inds))
                d1   == PairedDuration(DropFirst(inds))
            IN  Len(inds) % 2 = 1 =>
                    /\ d0 < d1 => mask[i] = MaskOf(DropLast(inds), T)
                    /\ d1 < d0 => mask[i] = MaskOf(DropFirst(inds), T)
                    /\ d0 = d1 => mask[i] \in {MaskOf(DropLast(inds), T),
                                               MaskOf(DropFirst(inds), T)}


Banded == pw_args # None /\ pw_args.time_horizon_s # None

\* w is ceil(time_horizon_s / bin_duration_s)
IsCeilOfHorizon(w) ==
    /\ w * bin_duration_s >= pw_args.time_horizon_s[1]
    /\ (w - 1) * bin_duration_s < pw_args.time_horizon_s[1]

\* the best correlation of the pair {i, j}, computed for the smaller index
\* against the larger
PairMaxCorr(i, j) ==
    BestLag(motion_hist[Min2(i, j)], motion_hist[Max2(i, j)],
            NumShifts(Len(motion_hist[1]), bin_um,
                      pw_args.max_displacement_um)).max_corr

\* C19: with time_horizon_s > 0 and band_width = ceil(time_horizon_s /
\* bin_duration_s): entries with |i - j| >= band_width are zero in both
\* matrices, the diagonal holds displacement 0 and correlation 1, and an
\* off-diagonal pair inside the band is stored (with its maximum
\* correlation, in both orders) if and only if that maximum is strictly
\* above corr_threshold.
C19_BandStructure ==
    (pc = "pw_done" /\ Banded) =>
        \A w \in 1..(pw_args.time_horizon_s[1] + 1) : IsCeilOfHorizon(w) =>
            \A i, j \in 1..Len(motion_hist) :
                /\ Abs(i - j) >= w =>
                      /\ pairwise_displacement[i][j] = 0
                      /\ correlation[i][j] = CorrZero
                /\ i = j =>
                      /\ pairwise_displacement[i][j] = 0
                      /\ correlation[i][j] = CorrOne
                /\ (i # j /\ Abs(i - j) < w) =>
                      IF CorrGreater(PairMaxCorr(i, j), pw_args.corr_threshold)
                      THEN /\ correlation[i][j] = PairMaxCorr(i, j)
                           /\ correlation[i][j] # CorrZero
                      ELSE /\ correlation[i][j] = CorrZero
                           /\ pairwise_displacement[i][j] = 0

\* a banded result holding a stored pair with a displacement, and another
\* banded result where the same distance lies outside the band
C19_Witness ==
    /\ pc = "pw_done"
    /\ Banded
    /\ IsCeilOfHorizon(2)
    /\ correlation[1][2] # CorrZero
    /\ pairwise_displacement[1][2] # 0
    /\ pairwise_displacement[2][1] = -pairwise_displacement[1][2]

----------------------------------------------------------------------------
(* estimate_motion: spatial bins, windows, temporal bins, post-processing  *)

possible_motion_estimation_methods ==
    {"decentralized_registration", "iterative_template_registration"}

\* q > k / 100 for a fraction q, without large cross products
ExceedsE2(q, k) ==
    LET whole == q[1] \div q[2]
        part  == q[1] % q[2]
    IN  \/ whole > k \div 100
        \/ whole = k \div 100 /\ part * 100 > (k % 100) * q[2]

\* np.exp(-q) is 0.0 in double precision for q above 745.13 (two decimals;
\* no exponent of the windows below lies within 0.01 of either threshold)
ExpUnderflowE2 == 74513

IsZeroWeight(q) == ExceedsE2(q, ExpUnderflowE2)

\* np.exp(-q) > 1e-5 exactly when q < ln(1e5) = 11.5129...
LnTaperE2 == 1151

AboveTaper(q) == ~ExceedsE2(q, LnTaperE2)

\* window_slice = np.flatnonzero(win > 1e-5); window_slice[0] raises
\* IndexError when no entry of the window is above 1e-5
EmptyWindowSlice(win) == \A b \in 1..Len(win) : ~AboveTaper(win[b])

\* the spatial bins of win above 1e-5: np.flatnonzero(win > 1e-5)
FlatNonZero(win) == {b \in 1..Len(win) : AboveTaper(win[b])}

\* window_slice = slice(window_slice[0], window_slice[-1]): from the first
\* bin above 1e-5 up to, and without, the last one
WindowSlice(win) ==
    LET above == FlatNonZero(win)
        first == CHOOSE b \in above : \A u \in above : b <= u
        last  == CHOOSE b \in above : \A u \in above : u <= b
    IN  first..(last - 1)

\* num_spatial_bins = len(spatial_bin_edges)
NumSpatialBinsOf(edges) == Len(edges)

\* rigid case: one window of ones over num_spatial_bins entries, one center
RigidWindows(edges) == <<Tup([b \in 1..NumSpatialBinsOf(edges) |-> FInt(0)])>>

RigidCenters(edges, bin) == <<2 * edges[NumSpatialBinsOf(edges) \div 2 + 1] + bin>>

\* non-rigid case: centers np.arange(num_windows) * bin_step_um + min_ + border
\* (in half micrometres), windows exp(-(edges[:-1] - center)^2 / sigma_um^2)
\* with sigma_um = sigma * bin_step_um, sigma the fraction sg
NumNonRigidWindows(cpos, margin, step) ==
    ((SeqMax(cpos) + margin) - (SeqMin(cpos) - margin)) \div step

NonRigidCenters(cpos, margin, step) ==
    LET min_ == SeqMin(cpos) - margin
        max_ == SeqMax(cpos) + margin
        border2 == (max_ - min_) % step
    IN  Tup([k \in 1..NumNonRigidWindows(cpos, margin, step) |->
            2 * ((k - 1) * step + min_) + border2])

NonRigidWindows(edges, centers2, step, sg) ==
    Tup([w \in 1..Len(centers2) |-> Tup([b \in 1..(Len(edges) - 1) |->
        Frac((2 * edges[b] - centers2[w]) * (2 * edges[b] - centers2[w]) * sg[2] * sg[2],
             4 * sg[1] * sg[1] * step * step)])])

\* temporal_hist_bin_edges = sample_bin_edges / fs, in quarters of a second
TemporalHistBinEdges(sedges, fs) ==
    Tup([k \in 1..Len(sedges) |-> (4 * sedges[k]) \div fs])

\* temporal_bins = temporal_hist_bin_edges[:-1] + bin_duration_s // 2.
\* (floor division, in seconds), in quarters of a second
TemporalBins(tedges, dur) ==
    Tup([k \in 1..(Len(tedges) - 1) |-> tedges[k] + 4 * (dur \div 8)])

\* upsample_to_histogram_bin when given as None; a variant that always
\* upsamples comes first
UpsampleAlways(given, non_rigid_kwargs) == TRUE

UpsampleChosen(given, non_rigid_kwargs) ==
    IF given = None THEN non_rigid_kwargs # None ELSE given[1]

\* non_rigid_windows /= non_rigid_windows.sum(axis=0, keepdims=True):
\* "nan" where every window of the spatial bin is 0.0 (0 / 0)
RenormalizedWindows(windows) ==
    Tup([w \in 1..Len(windows) |-> Tup([b \in 1..Len(windows[1]) |->
        IF \A u \in 1..Len(windows) : IsZeroWeight(windows[u][b]) THEN "nan"
        ELSE IF IsZeroWeight(windows[w][b]) THEN "zero"
        ELSE "pos"])])

\* motion @ non_rigid_windows
Upsampled(mot, wnorm) ==
    Tup([t \in 1..Len(mot) |-> Tup([b \in 1..Len(wnorm[1]) |->
        IF \E w \in 1..Len(wnorm) : mot[t][w] = "nan" \/ wnorm[w][b] = "nan"
        THEN "nan" ELSE "fin"])])

EstDurations == {2, 4, 8, 20, 40}       \* 0.5 s, 1 s, 2 s, 5 s, 10 s

EstSigmas == {<<3, 1>>, <<1, 25>>}      \* sigma: 3 (default), 0.04

EstProbes == {<<0, 20>>, <<35, 0>>, <<0, 180>>}

EstCfgs ==
    [method : possible_motion_estimation_methods,
     non_rigid_kwargs :
        {None} \cup {Some(k) : k \in [bin_step_um : {15, 20, 100}, sigma : EstSigmas]},
     clean_motion_kwargs : {None, Some([speed_threshold |-> 30])},
     upsample_to_histogram_bin : {None, Some(TRUE), Some(FALSE)}]

InitEstimate ==
    /\ pc = "est_start"
    /\ PwIdle
    /\ CleanIdle
    /\ contact_pos \in EstProbes
    /\ margin_um \in {0, 10}
    /\ bin_um = 10
    /\ spatial_bin_edges = <<>>
    /\ bin_duration_s \in EstDurations
    /\ \E more \in {0, 1} :
          rec = [fs |-> 4,
                 num_samples |-> 2 * BinSampleSize(bin_duration_s, 4) + more]
    /\ bin_sample_size = 0
    /\ peaks = <<>>
    /\ weight_with_amplitude = FALSE
    /\ motion_histogram = <<>>
    /\ sample_bin_edges = <<>>
    /\ RestIdle
    /\ cfg \in EstCfgs
    /\ cfg.non_rigid_kwargs # None =>
          NumNonRigidWindows(contact_pos, margin_um,
                             cfg.non_rigid_kwargs[1].bin_step_um) >= 1
    /\ non_rigid_windows = <<>>
    /\ windows_norm = None
    /\ spatial_bins_non_rigid = <<>>
    /\ temporal_hist_bin_edges = <<>>
    /\ temporal_bins = <<>>
    /\ est_motion = <<>>
    /\ window_slices = <<>>

\* lines 109-140: spatial bins and non-rigid windows
EstimateWindows ==
    /\ pc = "est_start"
    /\ LET edges == get_spatial_bin_edges(contact_pos, margin_um, bin_um)
       IN  /\ spatial_bin_edges' = edges
           /\ IF cfg.non_rigid_kwargs = None
              THEN /\ non_rigid_windows' = RigidWindows(edges)
                   /\ spatial_bins_non_rigid' = RigidCenters(edges, bin_um)
              ELSE LET kw == cfg.non_rigid_kwargs[1]
                       centers2 == NonRigidCenters(contact_pos, margin_um, kw.bin_step_um)
                   IN  /\ spatial_bins_non_rigid' = centers2
                       /\ non_rigid_windows' =
                              NonRigidWindows(edges, centers2, kw.bin_step_um, kw.sigma)
    /\ pc' = "est_windows"
    /\ UNCHANGED <<contact_pos, margin_um, bin_um, histVars, pwVars, cleanVars,
                   cfg, windows_norm, temporal_hist_bin_edges, temporal_bins,
                   est_motion, window_slices, restVars>>

\* lines 142-230: the histogram's temporal edges, the temporal bins and the
\* motion of the chosen method, one column per window; the estimator's
\* values are finite or NaN. Both methods take window_slice[0] of every
\* window (lines 164-165, 749-750) and raise when a slice is empty.
EstimateMethod(nan) ==
    /\ pc = "est_windows"
    /\ LET bss    == BinSampleSize(bin_duration_s, rec.fs)
           sedges == SampleBinEdges(rec.num_samples, bss)
           tedges == TemporalHistBinEdges(sedges, rec.fs)
       IN  /\ bin_sample_size' = bss
           /\ sample_bin_edges' = sedges
           /\ temporal_hist_bin_edges' = tedges
           /\ temporal_bins' = TemporalBins(tedges, bin_duration_s)
           /\ IF \E w \in 1..Len(non_rigid_windows) :
                    EmptyWindowSlice(non_rigid_windows[w])
              THEN /\ pc' = "est_error"
                   /\ UNCHANGED <<est_motion, window_slices>>
              ELSE /\ pc' = "est_motion"
                   /\ window_slices' = Tup([w \in 1..Len(non_rigid_windows) |->
                                           WindowSlice(non_rigid_windows[w])])
                   /\ est_motion' = Tup([t \in 1..(Len(sedges) - 1) |->
                                        Tup([w \in 1..Len(non_rigid_windows) |->
                                            IF nan THEN "nan" ELSE "fin"])])
    /\ UNCHANGED <<binVars, rec, peaks, weight_with_amplitude, motion_histogram,
                   bin_duration_s, pwVars, cleanVars, cfg, non_rigid_windows,
                   windows_norm, spatial_bins_non_rigid, restVars>>

\* lines 236-256: NaN replaced by 0, optional cleaning (clean_motion_vector
\* returns an array of the shape of its input), optional upsampling, return
EstimatePostProcess ==
    /\ pc = "est_motion"
    /\ LET zeroed == Tup([t \in 1..Len(est_motion) |->
                         Tup([w \in 1..Len(est_motion[t]) |-> "fin"])])
           up == UpsampleChosen(cfg.upsample_to_histogram_bin, cfg.non_rigid_kwargs)
           wn == RenormalizedWindows(non_rigid_windows)
       IN  IF up
           THEN /\ windows_norm' = Some(wn)
                /\ spatial_bins_non_rigid' =
                       Tup([b \in 1..(Len(spatial_bin_edges) - 1) |->
                           2 * spatial_bin_edges[b] + bin_um])
                /\ est_motion' = Upsampled(zeroed, wn)
           ELSE /\ est_motion' = zeroed
                /\ UNCHANGED <<windows_norm, spatial_bins_non_rigid>>
    /\ pc' = "est_returned"
    /\ UNCHANGED <<binVars, histVars, pwVars, cleanVars, cfg, non_rigid_windows,
                   temporal_hist_bin_edges, temporal_bins, window_slices, restVars>>

NextEstimate ==
    \/ EstimateWindows
    \/ \E nan \in BOOLEAN : EstimateMethod(nan)
    \/ EstimatePostProcess

SpecEstimate == InitEstimate /\ [][NextEstimate]_vars

Rigid == cfg.non_rigid_kwargs = None

WasUpsampled == windows_norm # None

C4_MotionShape ==
    pc = "est_returned" =>
        /\ Len(est_motion) = Len(temporal_bins)
        /\ \A t \in 1..Len(est_motion) :
              /\ Len(est_motion[t]) = Len(spatial_bins_non_rigid)
              /\ WasUpsampled => Len(est_motion[t]) = Len(spatial_bin_edges) - 1

\* C6: in the non-rigid case with upsampling, the renormalized weights of
\* every spatial bin sum to 1 and are finite: no per-bin divisor is zero.
C6_PartitionOfUnity ==
    (pc = "est_returned" /\ ~Rigid /\ WasUpsampled) =>
        \A b \in 1..Len(windows_norm[1][1]) :
            /\ \E w \in 1..Len(windows_norm[1]) : windows_norm[1][w][b] = "pos"
            /\ \A w \in 1..Len(windows_norm[1]) : windows_norm[1][w][b] # "nan"

\* C14: the returned motion holds no NaN in any configuration: the
\* estimator's NaN are replaced by 0 and no later stage introduces one.
C14_NoNaNReturned ==
    pc = "est_returned" =>
        \A t \in 1..Len(est_motion) : \A b \in 1..Len(est_motion[t]) :
            est_motion[t][b] # "nan"

\* C8: each temporal bin center is the left edge of its bin plus half the
\* bin duration (times in quarters of a second).
C8_TemporalBinCenters ==
    pc \in {"est_motion", "est_error", "est_returned"} =>
        \A k \in 1..Len(temporal_bins) :
            2 * temporal_bins[k] = 2 * temporal_hist_bin_edges[k] + bin_duration_s


----------------------------------------------------------------------------
(* estimate_motion: argument validation, parameter dicts, order of the     *)
(* computations, diagnostics.  Dicts are functions from keys to values;    *)
(* non_rigid_window_overlap and smoothing_sigma are in tenths.             *)

EmptyDict == [k \in {} |-> 0]

\* d.get(k, default)
Get(dict, k, default) == IF k \in DOMAIN dict THEN dict[k] ELSE default

\* method_kwargs_ = dict(<defaults of the method>)
DefaultKwargs(method) ==
    IF method = "decentralized_registration"
    THEN [pairwise_displacement_method |-> "conv",
          convergence_method |-> "gradient_descent",
          max_displacement_um |-> 1500]
    ELSE [num_amp_bins |-> 20,
          num_shifts_global |-> 15,
          num_iterations |-> 10,
          num_shifts_block |-> 5,
          non_rigid_window_overlap |-> 5,
          smoothing_sigma |-> 5,
          kriging_sigma |-> 1,
          kriging_p |-> 2,
          kriging_d |-> 2]

\* method_kwargs_.update(method_kwargs); return method_kwargs_
init_kwargs_dict(method, method_kwargs) == method_kwargs @@ DefaultKwargs(method)

\* assert recording.get_num_segments() == 1, and a variant without it
AnySegments(n) == n >= 1

SingleSegment(n) == n = 1

\* return motion, temporal_bins, spatial_bins_non_rigid[, extra_check], and
\* a variant that always returns four values
ReturnCountFour(output_extra_check) == 4

ReturnCount(output_extra_check) == IF output_extra_check THEN 4 ELSE 3

\* the keyword arguments compute_pairwise_displacement is called with
PairwiseParams(kw) ==
    [pairwise_displacement_method |-> kw["pairwise_displacement_method"],
     weight_scale |-> Get(kw, "weight_scale", "linear"),
     batch_size |-> Get(kw, "batch_size", 1),
     max_displacement_um |-> Get(kw, "max_displacement_um", 1500),
     corr_threshold |-> Get(kw, "corr_threshold", 0)]

\* the keyword arguments compute_global_displacement is called with
GlobalParams(kw) ==
    [convergence_method |-> kw["convergence_method"],
     robust_regression_sigma |-> Get(kw, "robust_regression_sigma", 2),
     lsqr_robust_n_iter |-> Get(kw, "lsqr_robust_n_iter", 20)]

\* the defaults of the signature of iterative_template_registration
IterativeDefaults ==
    [num_shifts_global |-> 15, num_iterations |-> 10,
     non_rigid_window_overlap |-> 5, num_shifts_block |-> 5,
     smoothing_sigma |-> 5, kriging_sigma |-> 1, kriging_p |-> 2,
     kriging_d |-> 2]

\* the keyword arguments estimate_motion passes to
\* iterative_template_registration (lines 215-222), over the signature's
\* defaults
IterativeParams(kw) ==
    [k \in {"num_shifts_global", "num_iterations", "num_shifts_block",
            "smoothing_sigma", "kriging_p", "kriging_d"} |-> kw[k]]
        @@ IterativeDefaults

PairwiseMethods == {"conv", "phase_cross_correlation"}

ConvergenceMethods == {"gradient_descent", "lsqr_robust"}

\* the number of windows of the call
CallNumWindows ==
    IF call.non_rigid_kwargs = None THEN 1
    ELSE NumNonRigidWindows(contact_pos, margin_um,
                            call.non_rigid_kwargs[1]["bin_step_um"])

CallerKwargs ==
    {EmptyDict,
     [convergence_method |-> "lsqr_robust"],
     [convergence_method |-> "bogus"],
     [pairwise_displacement_method |-> "bogus"],
     [corr_threshold |-> 1, max_displacement_um |-> 100],
     [non_rigid_window_overlap |-> 15],
     [kriging_sigma |-> 2, num_iterations |-> 3],
     [some_key |-> 1]}

DirectKwargs ==
    {EmptyDict,
     [non_rigid_window_overlap |-> 15],
     [non_rigid_window_overlap |-> 10],
     [kriging_sigma |-> 2, num_iterations |-> 3]}

CallArgs ==
    [entry : {"estimate_motion"},
     num_segments : {1, 2},
     method : possible_motion_estimation_methods \cup {"bogus"},
     method_kwargs : CallerKwargs,
     non_rigid_kwargs : {None, Some([bin_step_um |-> 20]), Some([sigma |-> 3])},
     output_extra_check : BOOLEAN]
    \cup
    [entry : {"iterative_template_registration"},
     num_segments : {1},
     method : {"iterative_template_registration"},
     method_kwargs : DirectKwargs,
     non_rigid_kwargs : {None, Some([bin_step_um |-> 20])},
     output_extra_check : {FALSE}]

InitCall ==
    /\ call \in CallArgs
    /\ pc = IF call.entry = "estimate_motion" THEN "call_start" ELSE "call_align"
    /\ contact_pos \in {<<0, 40>>, <<0, 60>>}
    /\ margin_um = 0
    /\ bin_um = 10
    /\ spatial_bin_edges = <<>>
    /\ HistIdle
    /\ PwIdle
    /\ CleanIdle
    /\ EstIdle
    /\ WinIdle
    /\ CovIdle
    /\ ZarrIdle
    /\ MoreIdle
    /\ method_kwargs_ = None
    /\ extra_check = None
    /\ trace = <<>>
    /\ run_params = EmptyDict
    /\ raised = None
    /\ returned = 0
    /\ win_index = 0

Raise(type, option) ==
    /\ pc' = "call_raised"
    /\ raised' = <<type, option>>

callFrame == <<binVars, histVars, pwVars, cleanVars, estVars, winVars, covVars,
               zarrVars, moreVars, call>>

\* lines 101-107
CallValidate ==
    /\ pc = "call_start"
    /\ IF ~SingleSegment(call.num_segments)
       THEN /\ Raise("AssertionError", "")
            /\ UNCHANGED <<method_kwargs_, extra_check>>
       ELSE IF call.method \notin possible_motion_estimation_methods
       THEN /\ Raise("AssertionError", "")
            /\ UNCHANGED <<method_kwargs_, extra_check>>
       ELSE /\ method_kwargs_' = init_kwargs_dict(call.method, call.method_kwargs)
            /\ extra_check' = IF call.output_extra_check THEN EmptyDict ELSE None
            /\ pc' = "call_windows"
            /\ UNCHANGED raised
    /\ UNCHANGED <<callFrame, trace, run_params, returned, win_index>>

\* lines 109-140
CallWindows ==
    /\ pc = "call_windows"
    /\ IF call.non_rigid_kwargs = None
       THEN /\ pc' = "call_hist"
            /\ UNCHANGED <<raised, extra_check>>
       ELSE IF "bin_step_um" \notin DOMAIN call.non_rigid_kwargs[1]
       THEN /\ Raise("AssertionError", "bin_step_um")
            /\ UNCHANGED extra_check
       ELSE /\ pc' = "call_hist"
            /\ extra_check' =
                  IF call.output_extra_check
                  THEN ("non_rigid_windows" :> CallNumWindows) @@ extra_check
                  ELSE extra_check
            /\ UNCHANGED raised
    /\ UNCHANGED <<callFrame, method_kwargs_, trace, run_params, returned, win_index>>

\* lines 142-157 and 202-211: the histogram of the method
CallHistogram ==
    /\ pc = "call_hist"
    /\ trace' = Append(trace, <<"histogram", 0>>)
    /\ IF call.method = "decentralized_registration"
       THEN /\ pc' = "call_pairwise"
            /\ extra_check' =
                  IF call.output_extra_check
                  THEN ("motion_histogram" :> 0)
                       @@ ("pairwise_displacement_list" :> <<>>) @@ extra_check
                  ELSE extra_check
            /\ UNCHANGED run_params
       ELSE /\ pc' = "call_align"
            /\ run_params' = ("num_amp_bins" :> method_kwargs_["num_amp_bins"])
            /\ UNCHANGED extra_check
    /\ UNCHANGED <<callFrame, method_kwargs_, raised, returned, win_index>>

\* lines 163-185: windowing and compute_pairwise_displacement of window
\* win_index; an unknown method raises ValueError at line 524
CallPairwise ==
    /\ pc = "call_pairwise"
    /\ LET params == PairwiseParams(method_kwargs_)
       IN  /\ run_params' = params @@ run_params
           /\ IF params.pairwise_displacement_method \notin PairwiseMethods
              THEN /\ Raise("ValueError", params.pairwise_displacement_method)
                   /\ UNCHANGED <<trace, extra_check>>
              ELSE /\ pc' = "call_global"
                   /\ trace' = Append(trace, <<"pairwise", win_index>>)
                   /\ extra_check' =
                         IF call.output_extra_check
                         THEN [extra_check EXCEPT !["pairwise_displacement_list"] =
                                  Append(@, win_index)]
                         ELSE extra_check
                   /\ UNCHANGED raised
    /\ UNCHANGED <<callFrame, method_kwargs_, returned, win_index>>

\* lines 187-200: compute_global_displacement of window win_index; an
\* unknown convergence method raises ValueError at line 642
CallGlobal ==
    /\ pc = "call_global"
    /\ LET params == GlobalParams(method_kwargs_)
       IN  /\ run_params' = params @@ run_params
           /\ IF params.convergence_method \notin ConvergenceMethods
              THEN /\ Raise("ValueError", params.convergence_method)
                   /\ UNCHANGED <<trace, win_index>>
              ELSE /\ trace' = Append(trace, <<"global", win_index>>)
                   /\ win_index' = win_index + 1
                   /\ pc' = IF win_index + 1 < CallNumWindows
                            THEN "call_pairwise" ELSE "call_post"
                   /\ UNCHANGED raised
    /\ UNCHANGED <<callFrame, method_kwargs_, extra_check, returned>>

\* iterative_template_registration: the assert of line 696, then the
\* alignment; called by estimate_motion at lines 213-230 or directly
CallAlign ==
    /\ pc = "call_align"
    /\ LET params == IF call.entry = "estimate_motion"
                     THEN IterativeParams(method_kwargs_)
                     ELSE call.method_kwargs @@ IterativeDefaults
       IN  /\ run_params' = params @@ run_params
           /\ IF ~(0 <= params.non_rigid_window_overlap
                   /\ params.non_rigid_window_overlap <= 10)
              THEN /\ Raise("AssertionError", "non_rigid_window_overlap")
                   /\ UNCHANGED <<trace, extra_check, returned>>
              ELSE /\ trace' = Append(trace, <<"alignment", 0>>)
                   /\ UNCHANGED raised
                   /\ IF call.entry = "estimate_motion"
                      THEN /\ pc' = "call_post"
                           /\ extra_check' =
                                 IF call.output_extra_check
                                 THEN ("motion_histograms" :> 0)
                                      @@ ("target_histogram" :> 0)
                                      @@ ("shift_covs_block" :> 0) @@ extra_check
                                 ELSE extra_check
                           /\ UNCHANGED returned
                      ELSE /\ pc' = "call_returned"
                           /\ returned' = 3
                           /\ UNCHANGED extra_check
    /\ UNCHANGED <<callFrame, method_kwargs_, win_index>>

\* lines 232-256
CallReturn ==
    /\ pc = "call_post"
    /\ pc' = "call_returned"
    /\ extra_check' =
          IF call.output_extra_check
          THEN ("temporal_hist_bin_edges" :> 0)
               @@ ("spatial_hist_bin_edges" :> 0) @@ extra_check
          ELSE extra_check
    /\ returned' = ReturnCount(call.output_extra_check)
    /\ UNCHANGED <<callFrame, method_kwargs_, trace, run_params, raised, win_index>>

NextCall ==
    \/ CallValidate
    \/ CallWindows
    \/ CallHistogram
    \/ CallPairwise
    \/ CallGlobal
    \/ CallAlign
    \/ CallReturn

SpecCall == InitCall /\ [][NextCall]_vars

ViaEstimate == call.entry = "estimate_motion"

InvalidCall ==
    /\ ViaEstimate
    /\ \/ call.num_segments # 1
       \/ call.method \notin possible_motion_estimation_methods
       \/ /\ call.non_rigid_kwargs # None
          /\ "bin_step_um" \notin DOMAIN call.non_rigid_kwargs[1]

\* C11: a call with a multi-segment recording, an unsupported method or a
\* non_rigid_kwargs without 'bin_step_um' never builds a histogram, never
\* computes a displacement and never returns; once it has left the
\* validation it has raised.
C11_InvalidCallFailsEarly ==
    InvalidCall =>
        /\ trace = <<>>
        /\ returned = 0
        /\ pc \in {"call_start", "call_windows", "call_raised"}
        /\ pc = "call_raised" => raised[1] = "AssertionError"

\* the three invalid calls have raised
C11_Witness ==
    /\ InvalidCall
    /\ pc = "call_raised"
    /\ call.num_segments = 1
    /\ call.method \in possible_motion_estimation_methods
    /\ raised = <<"AssertionError", "bin_step_um">>


ValidCall == ViaEstimate /\ ~InvalidCall

Decentralized == call.method = "decentralized_registration"

UnsupportedName ==
    \/ method_kwargs_["pairwise_displacement_method"] \notin PairwiseMethods
    \/ method_kwargs_["convergence_method"] \notin ConvergenceMethods

\* C12: with the decentralized method, an unsupported convergence_method or
\* pairwise_displacement_method raises an error naming the option before the
\* motion histogram is built and before any pairwise displacement is
\* computed.
C12_UnsupportedNameFailsFirst ==
    (/\ ValidCall
     /\ Decentralized
     /\ pc = "call_raised") =>
        /\ UnsupportedName
        /\ raised \in {<<"ValueError", method_kwargs_["pairwise_displacement_method"]>>,
                       <<"ValueError", method_kwargs_["convergence_method"]>>}
        /\ trace = <<>>

OverlapGiven == "non_rigid_window_overlap" \in DOMAIN call.method_kwargs

OverlapOutOfRange ==
    /\ OverlapGiven
    /\ ~(0 <= call.method_kwargs["non_rigid_window_overlap"]
         /\ call.method_kwargs["non_rigid_window_overlap"] <= 10)

Aligned == \E k \in 1..Len(trace) : trace[k][1] = "alignment"

\* C13: with the iterative-template method a non_rigid_window_overlap
\* outside [0, 1], passed directly or through method_kwargs of
\* estimate_motion, makes the run fail before any alignment: no alignment is
\* performed, nothing is returned, and the run cannot get past the
\* registration.
C13_OverlapOutOfRangeFails ==
    (/\ ~InvalidCall
     /\ call.method = "iterative_template_registration"
     /\ OverlapOutOfRange) =>
        /\ ~Aligned
        /\ returned = 0
        /\ pc \notin {"call_post", "call_returned"}

\* C15: the parameters the algorithm ran with are the method's defaults
\* overridden by the caller's method_kwargs: every key the caller gives that
\* has a default runs with the caller's value, keys without a default are
\* accepted, and the caller's dict is not modified (it is `call`, which no
\* step assigns).
C15_CallerOverridesDefaults ==
    (ValidCall /\ pc = "call_returned") =>
        \A k \in DOMAIN call.method_kwargs \cap DOMAIN DefaultKwargs(call.method) :
            /\ k \in DOMAIN run_params
            /\ run_params[k] = call.method_kwargs[k]

RigidCall == call.non_rigid_kwargs = None

HasHistogram ==
    \/ "motion_histogram" \in DOMAIN extra_check
    \/ "motion_histograms" \in DOMAIN extra_check

WindowOrder == [i \in 1..CallNumWindows |-> i - 1]

DiagnosticsOfMethod ==
    /\ HasHistogram
    /\ Decentralized =>
          /\ "pairwise_displacement_list" \in DOMAIN extra_check
          /\ extra_check["pairwise_displacement_list"] = WindowOrder
    /\ ~Decentralized => "target_histogram" \in DOMAIN extra_check

----------------------------------------------------------------------------
(* The per-window loops: estimate_motion lines 159-200 (decentralized) and *)
(* iterative_template_registration lines 777-791.  The code runs the       *)
(* windows one after the other; win_in.schedule also lets whole iterations *)
(* run in any order ("any_order") or their steps interleave                *)
(* ("interleaved").  Shifts are in tenths of a spatial bin.                *)

WinTimeBins == {1, 2}

\* shifts_block_up[imax] for num_shifts_block = 1: linspace(-1, 1, 21)
ShiftsBlockUp(imax) == imax - 10

\* np.sum(best_shifts, axis=0): the rows of the global iterations plus the
\* last row; and a variant that forgets the earlier rows
SumShiftsLastRowOnly(base, last_row) == last_row

SumShifts(base, last_row) == [t \in WinTimeBins |-> base[t] + last_row[t]]

Schedules == {"sequential", "any_order", "interleaved"}

\* per window and time bin: the value the window's own computation yields
\* (decentralized: the entry of one_motion; iterative: imax)
WinValues == {[t \in WinTimeBins |-> 0], [t \in WinTimeBins |-> 5 * t],
              [t \in WinTimeBins |-> 15]}

\* the sum of the rows of best_shifts written by the global iterations
BaseShifts == {[t \in WinTimeBins |-> 0], [t \in WinTimeBins |-> 10 * t]}

NumWin == Len(win_in.vals)

Windows == 1..NumWin

\* the next window of the `for` loop
NextInLoop(w) == \A u \in Windows : u < w => wpc[u] = "done"

NoneBetweenSteps == \A u \in Windows : wpc[u] \in {"todo", "done"}

MayStart(w) ==
    /\ wpc[w] = "todo"
    /\ win_in.schedule = "sequential" => NextInLoop(w)
    /\ win_in.schedule # "interleaved" => NoneBetweenSteps

InitWindows ==
    /\ pc = "win_loop"
    /\ BinsIdle
    /\ HistIdle
    /\ PwIdle
    /\ CleanIdle
    /\ EstIdle
    /\ CallIdle
    /\ CovIdle
    /\ ZarrIdle
    /\ MoreIdle
    /\ \E n \in 2..MaxWindows :
          /\ win_in \in [method : possible_motion_estimation_methods,
                         schedule : Schedules,
                         vals : [1..n -> WinValues],
                         base : BaseShifts]
          /\ wpc = [w \in 1..n |-> "todo"]
          /\ win_motion = [w \in 1..n |-> None]
          /\ optimal_shift_indices = [w \in 1..n |-> None]
    /\ best_shifts = [t \in WinTimeBins |-> 0]
    /\ motion_list = <<>>
    /\ done_order = <<>>
    /\ win_result = None

winFrame == <<pc, binVars, histVars, pwVars, cleanVars, estVars, callVars, covVars,
              zarrVars, moreVars, win_in>>

\* lines 163-198: windowing, pairwise displacement and global displacement
\* of window w, all on local arrays
DecCompute(w) ==
    /\ pc = "win_loop"
    /\ win_in.method = "decentralized_registration"
    /\ MayStart(w)
    /\ win_motion' = [win_motion EXCEPT ![w] = Some(win_in.vals[w])]
    /\ wpc' = [wpc EXCEPT ![w] = "computed"]
    /\ UNCHANGED <<winFrame, best_shifts, motion_list, optimal_shift_indices,
                   done_order, win_result>>

\* line 199: motion.append(one_motion[:, np.newaxis])
DecAppend(w) ==
    /\ pc = "win_loop"
    /\ win_in.method = "decentralized_registration"
    /\ wpc[w] = "computed"
    /\ motion_list' = Append(motion_list, win_motion[w][1])
    /\ wpc' = [wpc EXCEPT ![w] = "done"]
    /\ done_order' = Append(done_order, w)
    /\ UNCHANGED <<winFrame, win_motion, best_shifts, optimal_shift_indices,
                   win_result>>

\* lines 779-788: upsampled curve and arg-max of window w, then
\* best_shifts[num_iterations - 1, :] = shifts_block_up[imax]
ItWriteLastRow(w) ==
    /\ pc = "win_loop"
    /\ win_in.method = "iterative_template_registration"
    /\ MayStart(w)
    /\ best_shifts' = [t \in WinTimeBins |-> ShiftsBlockUp(win_in.vals[w][t])]
    /\ wpc' = [wpc EXCEPT ![w] = "computed"]
    /\ UNCHANGED <<winFrame, win_motion, motion_list, optimal_shift_indices,
                   done_order, win_result>>

\* line 791: optimal_shift_indices[:, window_index] = np.sum(best_shifts, axis=0)
ItSumShifts(w) ==
    /\ pc = "win_loop"
    /\ win_in.method = "iterative_template_registration"
    /\ wpc[w] = "computed"
    /\ optimal_shift_indices' =
          [optimal_shift_indices EXCEPT
              ![w] = Some(SumShifts(win_in.base, best_shifts))]
    /\ wpc' = [wpc EXCEPT ![w] = "done"]
    /\ done_order' = Append(done_order, w)
    /\ UNCHANGED <<winFrame, win_motion, best_shifts, motion_list, win_result>>

\* line 200: motion = np.concatenate(motion, axis=1); line 793: return
WindowsAssemble ==
    /\ pc = "win_loop"
    /\ \A w \in Windows : wpc[w] = "done"
    /\ win_result' =
          IF win_in.method = "decentralized_registration"
          THEN Some(motion_list)
          ELSE Some([w \in Windows |-> optimal_shift_indices[w][1]])
    /\ pc' = "win_done"
    /\ UNCHANGED <<binVars, histVars, pwVars, cleanVars, estVars, callVars, covVars,
                   zarrVars, moreVars, win_in, wpc, win_motion, best_shifts, motion_list,
                   optimal_shift_indices, done_order>>

NextWindows ==
    \/ \E w \in Windows : DecCompute(w)
    \/ \E w \in Windows : DecAppend(w)
    \/ \E w \in Windows : ItWriteLastRow(w)
    \/ \E w \in Windows : ItSumShifts(w)
    \/ WindowsAssemble

SpecWindows == InitWindows /\ [][NextWindows]_vars

\* the column of window w in the sequential run
SequentialColumn(w) ==
    IF win_in.method = "decentralized_registration"
    THEN win_in.vals[w]
    ELSE [t \in WinTimeBins |-> win_in.base[t] + ShiftsBlockUp(win_in.vals[w][t])]

SequentialResult == [w \in Windows |-> SequentialColumn(w)]

\* the column obtained for window w
ColumnOf(w) ==
    IF win_in.method = "decentralized_registration"
    THEN win_motion[w] ELSE optimal_shift_indices[w]

\* C18 as stated: no per-window step touches state another window writes,
\* so for any ordering or interleaving of the per-window steps the column
\* obtained for each window is the one of the sequential order.
C18_AnyInterleavingSameColumns ==
    pc = "win_done" => \A w \in Windows : ColumnOf(w) = Some(SequentialColumn(w))

\* C18 amended: the column obtained for each window is the one of the
\* sequential order for the decentralized method under any ordering or
\* interleaving, and for the iterative method under any ordering of whole
\* window iterations; the assembled array is the sequential one for the
\* iterative method under those orderings, and for the decentralized method
\* its k-th column is the result of the k-th window to complete.
C18_WindowColumns ==
    pc = "win_done" =>
        /\ (\/ win_in.method = "decentralized_registration"
            \/ win_in.schedule # "interleaved")
              => \A w \in Windows : ColumnOf(w) = Some(SequentialColumn(w))
        /\ (/\ win_in.method = "iterative_template_registration"
            /\ win_in.schedule # "interleaved")
              => win_result[1] = SequentialResult
        /\ win_in.method = "decentralized_registration" =>
              \A k \in Windows : win_result[1][k] = SequentialColumn(done_order[k])

\* iterations that ran out of window order and still gave the sequential
\* array, in the iterative method
C18_Witness ==
    /\ pc = "win_done"
    /\ win_in.method = "iterative_template_registration"
    /\ win_in.schedule = "any_order"
    /\ done_order[1] # 1
    /\ \E w, u \in Windows : SequentialColumn(w) # SequentialColumn(u)
    /\ win_result[1] = SequentialResult


----------------------------------------------------------------------------
(* iterative_template_registration, lines 758-793: smoothing of the block  *)
(* covariances and the returned diagnostics.  The Gaussian kernel of       *)
(* sigma 0.5 is taken in hundredths: 0.78 at the center, 0.11 at distance  *)
(* one (scipy: 0.7866, 0.1065, and 0.0003 at distance two), boundary mode  *)
(* 'reflect'.  Each pass multiplies the scale of the values by 100.        *)

KernelCenter == 78

KernelSide == 11

KernelSum == KernelCenter + 2 * KernelSide

\* index i of a sequence of length n under mode 'reflect'
Reflect(i, n) == IF i < 1 THEN 1 ELSE IF i > n THEN n ELSE i

\* gaussian_filter1d of a sequence
gaussian_filter1d(x) ==
    Tup([i \in 1..Len(x) |->
        KernelCenter * x[i]
        + KernelSide * (x[Reflect(i - 1, Len(x))] + x[Reflect(i + 1, Len(x))])])

\* gaussian_filter of a 2-d array [time bin][window]: one pass per axis
gaussian_filter(a) ==
    LET T == Len(a)
        W == Len(a[1])
        cols == Tup([w \in 1..W |-> gaussian_filter1d(Tup([t \in 1..T |-> a[t][w]]))])
        pass0 == Tup([t \in 1..T |-> Tup([w \in 1..W |-> cols[w][t]])])
    IN  Tup([t \in 1..T |-> gaussian_filter1d(pass0[t])])

\* lines 764-772: 2-d smoothing of every shift, then 1-d smoothing over the
\* shift axis for every window
SmoothCovs(covs) ==
    LET S == Len(covs)
        T == Len(covs[1])
        W == Len(covs[1][1])
        step1 == Tup([sh \in 1..S |-> gaussian_filter(covs[sh])])
        lines == Tup([t \in 1..T |-> Tup([w \in 1..W |->
                     gaussian_filter1d(Tup([sh \in 1..S |-> step1[sh][t][w]]))])])
    IN  Tup([sh \in 1..S |-> Tup([t \in 1..T |-> Tup([w \in 1..W |->
            lines[t][w][sh]])])])

\* the raw covariances on the scale of the smoothed ones
Rescaled(covs) ==
    Tup([sh \in 1..Len(covs) |-> Tup([t \in 1..Len(covs[sh]) |->
        Tup([w \in 1..Len(covs[sh][t]) |->
            KernelSum * KernelSum * KernelSum * covs[sh][t][w]])])])

CovShifts == {1, 2, 3}      \* shifts_block for num_shifts_block = 1

InitCovs ==
    /\ pc = "cov_start"
    /\ BinsIdle
    /\ HistIdle
    /\ PwIdle
    /\ CleanIdle
    /\ EstIdle
    /\ CallIdle
    /\ WinIdle
    /\ ZarrIdle
    /\ MoreIdle
    /\ \E nwin \in {1, 2} :
          shift_covs_block \in [CovShifts -> [WinTimeBins -> [1..nwin -> {0, 1}]]]
    /\ shift_covs_block_smooth = None
    /\ returned_covs = None

\* lines 758-772
ItSmooth ==
    /\ pc = "cov_start"
    /\ shift_covs_block_smooth' = Some(SmoothCovs(shift_covs_block))
    /\ pc' = "cov_smoothed"
    /\ UNCHANGED <<binVars, histVars, pwVars, cleanVars, estVars, callVars, winVars,
                   zarrVars, moreVars, shift_covs_block, returned_covs>>

\* lines 773-793: the upsampled curves and the arg-max read
\* shift_covs_block_smooth and write neither array;
\* return optimal_shift_indices, target_spikecount_hist, shift_covs_block
ItReturn ==
    /\ pc = "cov_smoothed"
    /\ returned_covs' = Some(Rescaled(shift_covs_block))
    /\ pc' = "cov_returned"
    /\ UNCHANGED <<binVars, histVars, pwVars, cleanVars, estVars, callVars, winVars,
                   zarrVars, moreVars, shift_covs_block, shift_covs_block_smooth>>

NextCovs == ItSmooth \/ ItReturn

SpecCovs == InitCovs /\ [][NextCovs]_vars

\* C17: the third value returned by iterative_template_registration is the
\* smoothed block covariance, the array the arg-max shifts were computed
\* from.
C17_ReturnsSmoothedCovs ==
    pc = "cov_returned" => returned_covs = shift_covs_block_smooth


----------------------------------------------------------------------------
(* core/zarrextractors.py: _write_zarr_chunk, called by the workers of     *)
(* add_traces_to_zarr on chunks of frames.  One channel; the assignment of *)
(* a chunk's rows is taken one row at a time, so calls interleave.         *)

ZarrWorkers == {"w1", "w2"}

ZarrSegments == {1, 2}

\* rows of the slice start_frame:end_frame, and a variant that includes
\* end_frame
ChunkRowsInclusive(start_frame, end_frame) == start_frame..end_frame

ChunkRows(start_frame, end_frame) == start_frame..(end_frame - 1)

\* recording.get_traces: the sample of a frame of a segment
GetTrace(offset, segment_index, frame) == offset + 90 * (segment_index - 1) + 25 * frame

\* traces.astype(dtype) for dtype int8
AsType(v) == ((v + 128) % 256) - 128

\* chunks over the frames of the recording
ZarrRanges(num_frames) ==
    {<<sg, a, b>> : sg \in ZarrSegments, a \in 0..MaxFrames, b \in 1..MaxFrames} \cap
    {c \in ZarrSegments \X (0..MaxFrames) \X (1..MaxFrames) :
        c[2] < c[3] /\ c[3] <= num_frames[c[1]]}

Disjoint(c, e) == c[1] # e[1] \/ c[3] <= e[2] \/ e[3] <= c[2]

InitZarr ==
    /\ pc = "zarr_write"
    /\ BinsIdle
    /\ HistIdle
    /\ PwIdle
    /\ CleanIdle
    /\ EstIdle
    /\ CallIdle
    /\ WinIdle
    /\ CovIdle
    /\ MoreIdle
    /\ \E n1 \in 2..MaxFrames, offset \in {5, 60} :
          LET num_frames == <<n1, 2>>
          IN  /\ \E jobs \in SUBSET ZarrRanges(num_frames) :
                    /\ Cardinality(jobs) \in 2..3
                    /\ \A c, e \in jobs : c # e => Disjoint(c, e)
                    /\ zarr_in = [num_frames |-> num_frames, offset |-> offset,
                                  chunks |-> jobs]
                    /\ zarr_jobs = jobs
              /\ zarr_datasets = [sg \in ZarrSegments |-> [r \in 1..num_frames[sg] |-> 0]]
              /\ zarr_writes = [sg \in ZarrSegments |-> [r \in 1..num_frames[sg] |-> 0]]
    /\ zarr_workers = [w \in ZarrWorkers |-> None]

zarrFrame == <<pc, binVars, histVars, pwVars, cleanVars, estVars, callVars, winVars,
               covVars, moreVars, zarr_in>>

\* lines 556-565: a worker starts _write_zarr_chunk on a chunk: reads the
\* traces of its frames and casts them
ZarrGetTraces(w, chunk) ==
    /\ zarr_workers[w] = None
    /\ chunk \in zarr_jobs
    /\ zarr_jobs' = zarr_jobs \ {chunk}
    /\ zarr_workers' = [zarr_workers EXCEPT ![w] =
          Some([segment_index |-> chunk[1],
                rows   |-> ChunkRows(chunk[2], chunk[3])
                              \cap 0..(zarr_in.num_frames[chunk[1]] - 1),
                traces |-> [f \in ChunkRows(chunk[2], chunk[3]) |->
                              AsType(GetTrace(zarr_in.offset, chunk[1], f))]])]
    /\ UNCHANGED <<zarrFrame, zarr_datasets, zarr_writes>>

\* line 566: zarr_dataset[start_frame:end_frame, :] = traces, one row; after
\* the last row the call ends (lines 568-570)
ZarrWriteRow(w) ==
    /\ zarr_workers[w] # None
    /\ LET job == zarr_workers[w][1]
           sg  == job.segment_index
           f   == CHOOSE x \in job.rows : \A y \in job.rows : x <= y
       IN  /\ zarr_datasets' = [zarr_datasets EXCEPT ![sg][f + 1] = job.traces[f]]
           /\ zarr_writes' = [zarr_writes EXCEPT ![sg][f + 1] = @ + 1]
           /\ zarr_workers' = [zarr_workers EXCEPT ![w] =
                 IF job.rows = {f} THEN None
                 ELSE Some([job EXCEPT !.rows = @ \ {f}])]
    /\ UNCHANGED <<zarrFrame, zarr_jobs>>

NextZarr ==
    \/ \E w \in ZarrWorkers, chunk \in zarr_jobs : ZarrGetTraces(w, chunk)
    \/ \E w \in ZarrWorkers : ZarrWriteRow(w)

SpecZarr == InitZarr /\ [][NextZarr]_vars

ZarrAllDone == zarr_jobs = {} /\ \A w \in ZarrWorkers : zarr_workers[w] = None

Covered(sg, f) == \E c \in zarr_in.chunks : c[1] = sg /\ c[2] <= f /\ f < c[3]

\* the dataset after writing the chunks one after the other
ZarrSequential ==
    [sg \in ZarrSegments |-> [r \in 1..zarr_in.num_frames[sg] |->
        IF Covered(sg, r - 1)
        THEN AsType(GetTrace(zarr_in.offset, sg, r - 1)) ELSE 0]]

\* C20: each call writes exactly the rows [start_frame, end_frame) of its
\* segment's dataset: under any interleaving of calls over disjoint ranges
\* no row is written twice, no row outside the chunks is written, and the
\* final dataset is the one of the sequential writing.
C20_DisjointChunkWrites ==
    /\ \A sg \in ZarrSegments : \A r \in 1..zarr_in.num_frames[sg] :
          /\ zarr_writes[sg][r] <= 1
          /\ ~Covered(sg, r - 1) =>
                zarr_writes[sg][r] = 0 /\ zarr_datasets[sg][r] = 0
    /\ ZarrAllDone =>
          /\ zarr_datasets = ZarrSequential
          /\ \A sg \in ZarrSegments : \A r \in 1..zarr_in.num_frames[sg] :
                Covered(sg, r - 1) => zarr_writes[sg][r] = 1

\* three chunks of the two segments written by interleaved calls, one row
\* left unwritten and one value wrapped by the cast
C20_Witness ==
    /\ ZarrAllDone
    /\ Cardinality(zarr_in.chunks) = 3
    /\ \E sg \in ZarrSegments : \E r \in 1..zarr_in.num_frames[sg] :
          zarr_writes[sg][r] = 0
    /\ \E sg \in ZarrSegments : \E r \in 1..zarr_in.num_frames[sg] :
          zarr_datasets[sg][r] < 0
    /\ zarr_datasets = ZarrSequential

----------------------------------------------------------------------------
(* clean_motion_vector: the speed bound and the masked indices             *)

\* C21 as stated: after one call (sigma_smooth_s = None) no two consecutive
\* time bins of the result differ by more than
\* speed_threshold * bin_duration_s, in any column, whatever the input.
C21_SpeedBounded ==
    (pc = "clean" /\ clean_calls = 1) => NoViolation(motion_clean)

\* the masked time bins of column i: MaskedOf(i) = {t : ~mask[i][t]}
MaskedOf(i) == {t \in 1..Len(mask[i]) : ~mask[i][t]}

\* C28: after a call on a motion of at least two time bins, in every column
\* the first and the last time bin are retained, every masked time bin has a
\* retained time bin before it and one after it (the interpolation has
\* nothing to extrapolate), and the retained time bins keep their values.
C28_MaskedStrictlyInside ==
    (pc = "clean" /\ clean_calls = 1) =>
        \A i \in 1..Len(motion[1]) :
            LET T == Len(motion)
            IN  /\ mask[i][1]
                /\ mask[i][T]
                /\ \A t \in MaskedOf(i) :
                       /\ \E u \in 1..(t - 1) : mask[i][u]
                       /\ \E u \in (t + 1)..T : mask[i][u]
                /\ \A t \in (1..T) \ MaskedOf(i) :
                       motion_clean[t][i] = motion[t][i]

\* a call masked two consecutive time bins ending next to the last one, and
\* the interpolation changed a value
C28_Witness ==
    /\ pc = "clean"
    /\ clean_calls = 1
    /\ Len(motion) >= 4
    /\ MaskedOf(1) = {Len(motion) - 2, Len(motion) - 1}
    /\ motion_clean # motion


----------------------------------------------------------------------------
(* iterative_template_registration, lines 699-793: the rigid rounds        *)
(* (Phase A) and the per-window sub-bin shifts (Phase B).  One amplitude   *)
(* bin.  Frames are kept times the number of spatial bins and the target   *)
(* times the number of time bins as well, so that means are sums; the      *)
(* arg-max over covariances is the same.  best_shifts and                  *)
(* optimal_shift_indices are in tenths of a spatial bin.  The upsampled    *)
(* covariance curve of a window is not computed: its arg-max is any index  *)
(* of shifts_block_up.                                                     *)

\* np.roll(a, shift, axis=0): entry i moves to (i + shift) mod len; a variant
\* that drops what leaves the array and fills with zeros comes first
RollNoWrap(a, shift) ==
    Tup([s \in 1..Len(a) |->
        IF s - shift \in 1..Len(a) THEN a[s - shift] ELSE 0])

Roll(a, shift) ==
    Tup([s \in 1..Len(a) |-> a[((s - 1 - shift) % Len(a)) + 1]])

\* line 708: Fg = F - np.mean(F, axis=0), times the number of spatial bins
MeanSubtract(F) ==
    Tup([t \in 1..Len(F) |->
        Tup([s \in 1..Len(F[t]) |-> Len(F[t]) * F[t][s] - SeqSum(F[t])])])

\* line 712: Fg[:, :, floor(T / 2) - 1]; index -1 is the last frame
InitialTarget(frames) ==
    LET T == Len(frames)
    IN  IF T \div 2 = 0 THEN frames[T] ELSE frames[T \div 2]

\* line 704: shifts[k] for k = 1..2G+1
ShiftAt(k, G) == k - 1 - G

\* line 722: np.mean(Fs * F0, axis=(0, 1)) for one time bin, as a sum
ShiftCov(frame, target, shift) ==
    LET Fs == Roll(frame, shift)
    IN  SeqSum([s \in 1..Len(frame) |-> Fs[s] * target[s]])

\* line 725: np.argmax(shift_covs, axis=0) for one time bin: the first index
\* of the largest covariance
ArgMaxShift(frame, target, G) ==
    LET cov(k) == ShiftCov(frame, target, ShiftAt(k, G))
    IN  CHOOSE k \in 1..(2 * G + 1) :
            /\ \A j \in 1..(2 * G + 1) : cov(j) <= cov(k)
            /\ \A j \in 1..(k - 1) : cov(j) < cov(k)

\* line 732: np.mean(Fg, axis=2), times the number of time bins
MeanFrames(frames) ==
    Tup([s \in 1..Len(frames[1]) |-> SeqSum([t \in 1..Len(frames) |-> frames[t][s]])])

\* lines 761-762: shifts_block_up[i] in tenths, i = 0..20B
ShiftsBlockUpAt(i, B) == i - 10 * B

\* line 791: np.sum(best_shifts, axis=0); a variant that leaves out the first
\* row comes first
SumRowsButFirst(rows) ==
    Tup([t \in 1..Len(rows[1]) |-> SeqSum([r \in 2..Len(rows) |-> rows[r][t]])])

SumRows(rows) ==
    Tup([t \in 1..Len(rows[1]) |-> SeqSum([r \in 1..Len(rows) |-> rows[r][t]])])

\* frames of four spatial bins the histograms are built from
FrameSamples == {<<1, 0, 0, 0>>, <<0, 1, 0, 0>>, <<0, 0, 2, 1>>}

\* arg-max indices tried for the upsampled curves: the first, the last and
\* one between two integer shifts
ImaxSamples(B) == {0, 10 * B - 3, 20 * B}

InitIterative ==
    /\ pc = "it_rigid"
    /\ BinsIdle
    /\ HistIdle
    /\ PwIdle
    /\ CleanIdle
    /\ EstIdle
    /\ CallIdle
    /\ CovIdle
    /\ ZarrIdle
    /\ FrIdle
    /\ ConvIdle
    /\ ZwIdle
    /\ win_in = None
    /\ wpc = <<>>
    /\ win_motion = <<>>
    /\ motion_list = <<>>
    /\ done_order = <<>>
    /\ win_result = None
    /\ it_args \in [num_iterations : 1..MaxIterations,
                    num_shifts_global : {1},
                    num_shifts_block : {1, 2},
                    num_windows : {1, 2}]
    /\ \E T \in {2, 3} :
          spikecounts_hist_images \in
              [1..T -> IF T = 2 THEN FrameSamples ELSE FrameSamples \ {<<1, 0, 0, 0>>}]
    /\ Fg = MeanSubtract(spikecounts_hist_images)
    /\ F0 = InitialTarget(Fg)
    /\ best_shifts = Tup([r \in 1..it_args.num_iterations |->
                         Tup([t \in 1..Len(spikecounts_hist_images) |-> 0])])
    /\ optimal_shift_indices = <<>>
    /\ iteration = 0
    /\ it_log = <<0, 0>>
    /\ imax_block = <<>>
    /\ window_index = 0

itFrame == <<binVars, histVars, pwVars, cleanVars, estVars, callVars, covVars,
             zarrVars, frVars, convVars, zwVars, win_in, wpc, win_motion, motion_list, done_order,
             win_result, it_args, spikecounts_hist_images>>

\* lines 718-732: one round of the rigid loop
ItRound ==
    /\ pc = "it_rigid"
    /\ iteration < it_args.num_iterations
    /\ LET G == it_args.num_shifts_global
           T == Len(Fg)
           imax == [t \in 1..T |-> ArgMaxShift(Fg[t], F0, G)]
           aligned == Tup([t \in 1..T |-> Roll(Fg[t], ShiftAt(imax[t], G))])
       IN  IF iteration + 1 < it_args.num_iterations
           THEN /\ Fg' = aligned
                /\ best_shifts' = [best_shifts EXCEPT ![iteration + 1] =
                                      Tup([t \in 1..T |-> 10 * ShiftAt(imax[t], G)])]
                /\ F0' = MeanFrames(aligned)
                /\ it_log' = <<it_log[1] + 1, it_log[2] + 1>>
           ELSE /\ it_log' = <<it_log[1] + 1, it_log[2]>>
                /\ UNCHANGED <<Fg, F0, best_shifts>>
    /\ iteration' = iteration + 1
    /\ UNCHANGED <<pc, itFrame, optimal_shift_indices, imax_block, window_index>>

\* lines 733-777: the loop has ended; target_spikecount_hist = F0 and
\* optimal_shift_indices = zeros
ItBlocksStart ==
    /\ pc = "it_rigid"
    /\ iteration >= it_args.num_iterations
    /\ optimal_shift_indices' = <<>>
    /\ pc' = "it_block"
    /\ UNCHANGED <<itFrame, Fg, F0, best_shifts, iteration, it_log, imax_block,
                   window_index>>

\* lines 778-788: arg-max of the upsampled curve of the next window, written
\* to the last row of best_shifts
ItBlockArgmax ==
    /\ pc = "it_block"
    /\ window_index < it_args.num_windows
    /\ \E imax \in [1..Len(Fg) -> ImaxSamples(it_args.num_shifts_block)] :
          /\ imax_block' = Append(imax_block, Tup(imax))
          /\ best_shifts' = [best_shifts EXCEPT ![it_args.num_iterations] =
                Tup([t \in 1..Len(Fg) |->
                        ShiftsBlockUpAt(imax[t], it_args.num_shifts_block)])]
    /\ pc' = "it_block_sum"
    /\ UNCHANGED <<itFrame, Fg, F0, iteration, it_log, optimal_shift_indices,
                   window_index>>

\* line 791: optimal_shift_indices[:, window_index] = np.sum(best_shifts, axis=0)
ItBlockSum ==
    /\ pc = "it_block_sum"
    /\ optimal_shift_indices' = Append(optimal_shift_indices, SumRows(best_shifts))
    /\ window_index' = window_index + 1
    /\ pc' = "it_block"
    /\ UNCHANGED <<itFrame, Fg, F0, best_shifts, iteration, it_log, imax_block>>

\* line 793: return
ItFinish ==
    /\ pc = "it_block"
    /\ window_index >= it_args.num_windows
    /\ pc' = "it_done"
    /\ UNCHANGED <<itFrame, Fg, F0, best_shifts, iteration, it_log, imax_block,
                   optimal_shift_indices, window_index>>

NextIterative ==
    \/ ItRound
    \/ ItBlocksStart
    \/ ItBlockArgmax
    \/ ItBlockSum
    \/ ItFinish

SpecIterative == InitIterative /\ [][NextIterative]_vars

\* the sum of the rigid shifts recorded for time bin t, in spatial bins
RigidSum(t) ==
    SeqSum([r \in 1..(it_args.num_iterations - 1) |-> best_shifts[r][t]]) \div 10

\* C22: for every window w and time bin t the returned shift is the sum of
\* the rigid shifts of the num_iterations - 1 alignment rounds plus the
\* sub-bin shift chosen for (t, w), whatever was chosen for the other
\* windows; each rigid shift lies in [-num_shifts_global, num_shifts_global]
\* and each sub-bin shift in [-num_shifts_block, num_shifts_block] on the
\* grid of step 0.1.
C22_ShiftIsRigidPlusBlock ==
    pc = "it_done" =>
        LET G == it_args.num_shifts_global
            B == it_args.num_shifts_block
        IN  /\ Len(optimal_shift_indices) = it_args.num_windows
            /\ \A w \in 1..it_args.num_windows : \A t \in 1..Len(Fg) :
                   /\ optimal_shift_indices[w][t] =
                         10 * RigidSum(t) + ShiftsBlockUpAt(imax_block[w][t], B)
                   /\ ShiftsBlockUpAt(imax_block[w][t], B) \in (-10 * B)..(10 * B)
            /\ \A r \in 1..(it_args.num_iterations - 1) : \A t \in 1..Len(Fg) :
                   /\ best_shifts[r][t] % 10 = 0
                   /\ best_shifts[r][t] \div 10 \in (-G)..G
            /\ it_log[2] = it_args.num_iterations - 1

\* two windows with different sub-bin shifts for a time bin that the rigid
\* rounds shifted
C22_Witness ==
    /\ pc = "it_done"
    /\ it_args.num_windows = 2
    /\ it_args.num_iterations >= 2
    /\ \E t \in 1..Len(Fg) :
          /\ RigidSum(t) # 0
          /\ imax_block[1][t] # imax_block[2][t]
          /\ ShiftsBlockUpAt(imax_block[1][t], it_args.num_shifts_block) % 10 # 0

\* C29: after every round of the rigid loop the working frame of each time
\* bin is its original mean-subtracted frame rotated cyclically by the sum
\* of the shifts recorded for it so far; covariances are computed in every
\* round, frames are aligned in all rounds but the last, and the loop ends
\* after exactly num_iterations rounds.
C29_FramesAreRotations ==
    it_args # None =>
        LET S == Len(F0)
            orig == MeanSubtract(spikecounts_hist_images)
            k(t) == SeqSum([r \in 1..it_args.num_iterations |->
                               IF r <= it_log[2] THEN best_shifts[r][t] ELSE 0]) \div 10
        IN  /\ \A t \in 1..Len(Fg) : \A s \in 1..S :
                   Fg[t][((s - 1 + k(t)) % S) + 1] = orig[t][s]
            /\ it_log[1] = iteration
            /\ it_log[2] = Min2(iteration, it_args.num_iterations - 1)
            /\ iteration <= it_args.num_iterations
            /\ pc # "it_rigid" => iteration = it_args.num_iterations
            /\ \A r \in (it_log[2] + 1)..(it_args.num_iterations - 1) :
                   \A t \in 1..Len(Fg) : best_shifts[r][t] = 0

\* the loop has ended after three rounds, two of which shifted some frame
C29_Witness ==
    /\ pc = "it_block"
    /\ it_args.num_iterations = 3
    /\ iteration = 3
    /\ \E t \in 1..Len(Fg) : best_shifts[1][t] # 0
    /\ \E t \in 1..Len(Fg) : best_shifts[2][t] # 0
    /\ Fg # MeanSubtract(spikecounts_hist_images)


----------------------------------------------------------------------------
(* compute_pairwise_displacement(method='conv'): range of the entries      *)

\* C23: every entry of the pairwise displacement matrix of method 'conv',
\* dense or banded, is an integer multiple of bin_um of magnitude at most
\* n * bin_um with n = min(num_spatial_bins // 2,
\* floor(max_displacement_um / bin_um)), and so never above
\* max_displacement_um.
C23_DisplacementRange ==
    pc = "pw_done" =>
        LET half == Len(motion_hist[1]) \div 2
            maxd == pw_args.max_displacement_um
            n    == IF maxd = None THEN half
                    ELSE IF maxd[1] \div bin_um < half THEN maxd[1] \div bin_um
                    ELSE half
        IN  \A i, j \in 1..Len(pairwise_displacement) :
               LET disp == pairwise_displacement[i][j]
               IN  /\ disp % bin_um = 0
                   /\ Abs(disp) <= n * bin_um
                   /\ maxd # None => Abs(disp) <= maxd[1]

\* two time bins whose profiles are one spatial bin apart: with
\* max_displacement_um below bin_um the entry is 0
C23_Witness ==
    /\ pc = "pw_done"
    /\ pw_args.max_displacement_um = Some(5)
    /\ \E i, j \in 1..Len(motion_hist) :
          /\ i # j
          /\ Compared(i, j)
          /\ ShiftedBy(motion_hist[i], motion_hist[j], 1)
          /\ \E x \in 1..Len(motion_hist[i]) : motion_hist[i][x] # 0
          /\ pairwise_displacement[i][j] = 0


----------------------------------------------------------------------------
(* estimate_motion: window centers and the bins each window uses           *)

\* C24 as stated: in the non-rigid case there are
\* floor((max_ - min_) / bin_step_um) window centers, at least one,
\* consecutive centers are bin_step_um apart, and the distance from min_ to
\* the first center equals the distance from the last center to max_.
\* (centers in half micrometres)
C24_SymmetricBorder ==
    (pc = "est_windows" /\ ~Rigid) =>
        LET step == cfg.non_rigid_kwargs[1].bin_step_um
            min_ == SeqMin(contact_pos) - margin_um
            max_ == SeqMax(contact_pos) + margin_um
            N    == Len(spatial_bins_non_rigid)
        IN  /\ N = (max_ - min_) \div step
            /\ N >= 1
            /\ \A k \in 1..(N - 1) :
                   spatial_bins_non_rigid[k + 1] - spatial_bins_non_rigid[k] = 2 * step
            /\ spatial_bins_non_rigid[1] - 2 * min_ =
                   2 * max_ - spatial_bins_non_rigid[N]

\* C25 as stated: the spatial bins used for a window's estimate are the
\* contiguous range from the first to the last bin whose window value is
\* above 1e-5, both ends included; in the rigid case these are all
\* len(spatial_bin_edges) - 1 histogram bins and the window vector has that
\* length.
C25_WindowSupportUsed ==
    pc \in {"est_motion", "est_returned"} =>
        /\ \A w \in 1..Len(non_rigid_windows) :
               LET above == FlatNonZero(non_rigid_windows[w])
               IN  window_slices[w] =
                      {b \in 1..Len(non_rigid_windows[w]) :
                          /\ \E u \in above : u <= b
                          /\ \E u \in above : b <= u}
        /\ Rigid =>
               /\ window_slices[1] = 1..(Len(spatial_bin_edges) - 1)
               /\ Len(non_rigid_windows[1]) = Len(spatial_bin_edges) - 1


----------------------------------------------------------------------------
(* estimate_motion and iterative_template_registration: which arrays the   *)
(* stages write.  Arrays live in a heap and names hold references: an      *)
(* expression that builds an array allocates a new object, a view shares   *)
(* the object of its base, and an in-place operator writes the object its  *)
(* left-hand side refers to.  Window values are fractions, all of them     *)
(* above 1e-5; histogram counts are integers.                              *)

\* a new object holding array a: the heap and the reference of the object
Alloc(h, a) == [heap |-> Append(h, a), ref |-> Len(h) + 1]

\* np.array(non_rigid_windows): a new array with the values of the list's
\* arrays; a variant that hands back the same object comes first
NpArrayNoCopy(h, r) == [heap |-> h, ref |-> r]

NpArray(h, r) == Alloc(h, h[r])

\* a / b for fractions, b # 0
FDiv(a, b) == Frac(a[1] * b[2], a[2] * b[1])

\* windows / windows.sum(axis=0, keepdims=True)
DividedBySum(wins) ==
    Tup([w \in 1..Len(wins) |-> Tup([b \in 1..Len(wins[w]) |->
        FDiv(wins[w][b], FSeqSum([u \in 1..Len(wins) |-> wins[u][b]]))])])

\* win[np.newaxis, window_slice] * motion_histogram[:, window_slice] with
\* window_slice = slice(first, last) over a window that is above 1e-5
\* everywhere
Tapered(win, hist) ==
    Tup([t \in 1..Len(hist) |-> Tup([b \in 1..(Len(win) - 1) |->
        Frac(win[b][1] * hist[t][b], win[b][2])])])

\* Fg[:, :, ibest] = np.roll(Fg[:, :, ibest], shift, axis=0) for every shift,
\* one round with num_shifts_global = 1
AlignedOnce(frames) ==
    LET target == InitialTarget(frames)
    IN  Tup([t \in 1..Len(frames) |->
            Roll(frames[t], ShiftAt(ArgMaxShift(frames[t], target, 1), 1))])

FrHists == [1..2 -> [1..3 -> {0, 1}]]

\* the list of windows: one window of ones over len(spatial_bin_edges) = 4
\* entries, or two windows over the three histogram bins
FrWindows ==
    {<<Tup([b \in 1..4 |-> FInt(1)])>>}
        \cup [1..2 -> {<<FInt(1), Frac(1, 2), Frac(1, 4)>>,
                       <<Frac(1, 4), Frac(1, 2), FInt(1)>>}]

NoRefs == [motion_histogram |-> 0, non_rigid_windows |-> 0, extra_hist |-> 0,
           extra_windows |-> 0, motion_hist |-> 0, F |-> 0, Fg |-> 0,
           motion |-> 0, windows_array |-> 0]

\* the state after lines 115-153 / 203-209: histogram and windows built and
\* stored in the diagnostics
InitFrame ==
    /\ pc = "fr_built"
    /\ BinsIdle
    /\ HistIdle
    /\ PwIdle
    /\ CleanIdle
    /\ EstIdle
    /\ CallIdle
    /\ WinIdle
    /\ CovIdle
    /\ ZarrIdle
    /\ ItIdle
    /\ ConvIdle
    /\ ZwIdle
    /\ fr_in \in [method : possible_motion_estimation_methods,
                  upsample_to_histogram_bin : BOOLEAN,
                  hist : {Tup([t \in 1..2 |-> Tup(h[t])]) : h \in FrHists},
                  windows : {Tup(ws) : ws \in FrWindows}]
    /\ heap = <<fr_in.hist, fr_in.windows>>
    /\ refs = [NoRefs EXCEPT !.motion_histogram = 1, !.non_rigid_windows = 2,
                             !.extra_hist = 1, !.extra_windows = 2]
    /\ fr_win = 0

frFrame == <<binVars, histVars, pwVars, cleanVars, estVars, callVars, winVars,
             covVars, zarrVars, itVars, convVars, zwVars, fr_in>>

\* lines 163-166: motion_hist of the next window, a new array
FrWeight ==
    /\ pc = "fr_built"
    /\ fr_in.method = "decentralized_registration"
    /\ fr_win < Len(heap[refs.non_rigid_windows])
    /\ LET win == heap[refs.non_rigid_windows][fr_win + 1]
           new == Alloc(heap, Tapered(win, heap[refs.motion_histogram]))
       IN  /\ heap' = new.heap
           /\ refs' = [refs EXCEPT !.motion_hist = new.ref]
    /\ pc' = "fr_weighted"
    /\ UNCHANGED <<frFrame, fr_win>>

\* lines 170-199: pairwise and global displacement read motion_hist and
\* build their own arrays; the column is appended to the list motion
FrDisplacement ==
    /\ pc = "fr_weighted"
    /\ fr_win' = fr_win + 1
    /\ pc' = "fr_built"
    /\ UNCHANGED <<frFrame, heap, refs>>

\* line 200: motion = np.concatenate(motion, axis=1), a new array
FrConcatenate ==
    /\ pc = "fr_built"
    /\ fr_in.method = "decentralized_registration"
    /\ fr_win >= Len(heap[refs.non_rigid_windows])
    /\ LET new == Alloc(heap, Tup([t \in 1..Len(fr_in.hist) |->
                                  Tup([w \in 1..fr_win |-> 0])]))
       IN  /\ heap' = new.heap
           /\ refs' = [refs EXCEPT !.motion = new.ref]
    /\ pc' = "fr_motion"
    /\ UNCHANGED <<frFrame, fr_win>>

\* lines 699-708: spikecounts_hist_images.swapaxes(...) is a view of the
\* histogram handed in, F is that view, Fg = F - np.mean(F, axis=0) is new
FrMeanSubtract ==
    /\ pc = "fr_built"
    /\ fr_in.method = "iterative_template_registration"
    /\ LET new == Alloc(heap, MeanSubtract(heap[refs.motion_histogram]))
       IN  /\ heap' = new.heap
           /\ refs' = [refs EXCEPT !.F = refs.motion_histogram, !.Fg = new.ref]
    /\ pc' = "fr_rigid"
    /\ UNCHANGED <<frFrame, fr_win>>

\* lines 718-732: the rounds write Fg in place
FrAlign ==
    /\ pc = "fr_rigid"
    /\ heap' = [heap EXCEPT ![refs.Fg] = AlignedOnce(heap[refs.Fg])]
    /\ pc' = "fr_blocks"
    /\ UNCHANGED <<frFrame, refs, fr_win>>

\* lines 747-793 and 225: tapered frames, covariances and shifts are new
\* arrays; motion = -(shift_indices * bin_um)
FrBlocks ==
    /\ pc = "fr_blocks"
    /\ LET nw  == Len(heap[refs.non_rigid_windows])
           new == Alloc(heap, Tup([t \in 1..Len(fr_in.hist) |->
                                  Tup([w \in 1..nw |-> 0])]))
       IN  /\ heap' = new.heap
           /\ refs' = [refs EXCEPT !.motion = new.ref]
    /\ pc' = "fr_motion"
    /\ UNCHANGED <<frFrame, fr_win>>

\* lines 237-251: NaN replaced in place in motion; with upsampling, the
\* windows are copied into one array, that array is divided in place and
\* motion @ non_rigid_windows is a new array; the name non_rigid_windows
\* is rebound to the array
FrPostProcess ==
    /\ pc = "fr_motion"
    /\ IF fr_in.upsample_to_histogram_bin
       THEN LET arr  == NpArray(heap, refs.non_rigid_windows)
                div  == [arr.heap EXCEPT ![arr.ref] = DividedBySum(arr.heap[arr.ref])]
                nbin == Len(div[arr.ref][1])
                new  == Alloc(div, Tup([t \in 1..Len(fr_in.hist) |->
                                       Tup([b \in 1..nbin |-> 0])]))
            IN  /\ heap' = new.heap
                /\ refs' = [refs EXCEPT !.windows_array = arr.ref,
                                        !.non_rigid_windows = arr.ref,
                                        !.motion = new.ref]
       ELSE UNCHANGED <<heap, refs>>
    /\ pc' = "fr_returned"
    /\ UNCHANGED <<frFrame, fr_win>>

NextFrame ==
    \/ FrWeight
    \/ FrDisplacement
    \/ FrConcatenate
    \/ FrMeanSubtract
    \/ FrAlign
    \/ FrBlocks
    \/ FrPostProcess

SpecFrame == InitFrame /\ [][NextFrame]_vars

\* C26: after construction no stage modifies the histogram or a window
\* profile: at every later point, and at return, the histogram, the list of
\* windows, the objects the diagnostics hold and the histogram handed to
\* iterative_template_registration have the values they were built with.
C26_HistogramAndWindowsKept ==
    fr_in # None =>
        /\ heap[1] = fr_in.hist
        /\ heap[2] = fr_in.windows
        /\ refs.motion_histogram = 1
        /\ refs.extra_hist = 1
        /\ refs.extra_windows = 2
        /\ refs.F \in {0, 1}
        /\ refs.non_rigid_windows = 2 \/ pc = "fr_returned"

\* a call that aligned frames in place, upsampled with two windows and
\* returned: the normalized array differs from the windows
C26_Witness ==
    /\ pc = "fr_returned"
    /\ fr_in.method = "iterative_template_registration"
    /\ fr_in.upsample_to_histogram_bin
    /\ Len(fr_in.windows) = 2
    /\ refs.F = 1
    /\ heap[refs.Fg] # MeanSubtract(fr_in.hist)
    /\ heap[refs.windows_array] # fr_in.windows


----------------------------------------------------------------------------
(* scipy_conv1d with padding 'valid', 'same' or an integer, for one input  *)
(* row and one kernel row not longer than the input                        *)

\* the sum over k of a[t + k] * w[k] for every position where the kernel
\* lies inside a
SlidingSum(a, w) ==
    Tup([t \in 1..(Len(a) - Len(w) + 1) |->
        SeqSum([k \in 1..Len(w) |-> a[t + k - 1] * w[k]])])

\* scipy.signal.correlate(in1, in2, mode) for len(in2) <= len(in1):
\* 'valid' keeps the positions without overhang; 'same' is the part of the
\* full correlation that has the length of in1 and is centered in it, which
\* leaves len(in2) // 2 overhanging entries on the left
Correlate(in1, in2, mode) ==
    IF mode = "valid" THEN SlidingSum(in1, in2)
    ELSE LET K == Len(in2)
         IN  SlidingSum(Zeros(K \div 2) \o in1 \o Zeros(K - 1 - K \div 2), in2)

\* lines 877-886: the mode handed to correlate, the padded input and
\* length_out, for padding "valid", "same" or <<p>>
ConvPlan(input, weights, padding) ==
    LET length == Len(input)
        kernel_size == Len(weights)
    IN  IF padding = "same"
        THEN [mode |-> "same", input |-> input, length_out |-> length]
        ELSE IF padding = "valid"
        THEN [mode |-> "valid", input |-> input,
              length_out |-> length - 2 * (kernel_size \div 2)]
        ELSE [mode |-> "valid", input |-> Pad(input, padding[1]),
              length_out |-> length - (kernel_size - 1) + 2 * padding[1]]

\* lines 890-895: output = np.zeros(length_out) raises for a negative
\* length; output[m, c] = correlate(...) raises when the row cannot be
\* broadcast to length_out (a row of one entry can)
ScipyConv1d(input, weights, padding) ==
    LET plan == ConvPlan(input, weights, padding)
        row  == Correlate(plan.input, weights, plan.mode)
    IN  IF plan.length_out < 0 THEN [error |-> TRUE, out |-> <<>>]
        ELSE IF Len(row) = plan.length_out THEN [error |-> FALSE, out |-> row]
        ELSE IF Len(row) = 1
        THEN [error |-> FALSE, out |-> Tup([t \in 1..plan.length_out |-> row[1]])]
        ELSE [error |-> TRUE, out |-> <<>>]

ConvPaddings == {"valid", "same"}

ConvIntPaddings == {<<0>>, <<1>>}

InitConv ==
    /\ pc = "conv_call"
    /\ BinsIdle
    /\ HistIdle
    /\ PwIdle
    /\ CleanIdle
    /\ EstIdle
    /\ CallIdle
    /\ WinIdle
    /\ CovIdle
    /\ ZarrIdle
    /\ ItIdle
    /\ FrIdle
    /\ ZwIdle
    /\ \E L \in 1..MaxConvLen, K \in 1..MaxKernel, named \in BOOLEAN :
          /\ K <= L
          /\ \E x \in [1..L -> {0, 1}], w \in [1..K -> {1, 2}] :
                IF named
                THEN \E pd \in ConvPaddings :
                        conv_in = [input |-> Tup(x), weights |-> Tup(w), padding |-> pd]
                ELSE \E pd \in ConvIntPaddings :
                        conv_in = [input |-> Tup(x), weights |-> Tup(w), padding |-> pd]
    /\ conv_out = None

convFrame == <<binVars, histVars, pwVars, cleanVars, estVars, callVars, winVars,
               covVars, zarrVars, itVars, frVars, zwVars, conv_in>>

\* one call with a padding given by name
ConvNamedPadding ==
    /\ pc = "conv_call"
    /\ Len(conv_in.padding) # 1
    /\ conv_out' = Some(ScipyConv1d(conv_in.input, conv_in.weights, conv_in.padding))
    /\ pc' = "conv_done"
    /\ UNCHANGED convFrame

\* one call with an integer padding
ConvIntPadding ==
    /\ pc = "conv_call"
    /\ Len(conv_in.padding) = 1
    /\ conv_out' = Some(ScipyConv1d(conv_in.input, conv_in.weights, conv_in.padding))
    /\ pc' = "conv_done"
    /\ UNCHANGED convFrame

NextConv ==
    \/ ConvNamedPadding
    \/ ConvIntPadding

SpecConv == InitConv /\ [][NextConv]_vars

\* conv1d of the tensor back-end: input padded by left and right zeros,
\* out[t] = sum over k of padded[t + k] * weights[k]
Conv1dReference(input, weights, left, right) ==
    SlidingSum(Zeros(left) \o input \o Zeros(right), weights)

\* C27 as stated: for every input length L, kernel size K (odd or even) and
\* padding 'valid', 'same' or an integer p, scipy_conv1d returns without
\* error the output of conv1d: length L + 2p - K + 1 (p = 0 for 'valid'),
\* length L for 'same' (K - 1 zeros split between the two sides), entry t
\* the sum over k of padded_input[t + k] * weights[k].
C27_ConvTranslation ==
    pc = "conv_done" =>
        LET x == conv_in.input
            w == conv_in.weights
            K == Len(w)
            pd == conv_in.padding
            res == conv_out[1]
        IN  /\ ~res.error
            /\ IF pd = "same"
               THEN /\ Len(res.out) = Len(x)
                    /\ \/ res.out = Conv1dReference(x, w, (K - 1) \div 2, K - 1 - (K - 1) \div 2)
                       \/ res.out = Conv1dReference(x, w, K \div 2, K - 1 - K \div 2)
               ELSE LET p == IF pd = "valid" THEN 0 ELSE pd[1]
                    IN  /\ Len(res.out) = Len(x) + 2 * p - K + 1
                        /\ res.out = Conv1dReference(x, w, p, p)


----------------------------------------------------------------------------
(* zarrextractors: add_sorting_to_zarr_group and                           *)
(* add_recording_to_zarr_group, the compressor of the datasets they        *)
(* create.  A compressor is a name: "default" for the one of               *)
(* get_default_zarr_compressor, "none" for compressor=None.  The calls     *)
(* carry no job keyword, so zarr_kwargs holds the caller's kwargs.         *)

\* line 336: the Blosc zstd compressor
get_default_zarr_compressor == "default"

CallerCompressors == {"gzip", "lz4"}

\* the caller's kwargs: empty, or a compressor
ZwKwargs == {EmptyDict} \cup {("compressor" :> c) : c \in CallerCompressors}

\* spikes.dtype.fields of the spike vector, in two orders
SpikeFields == {<<"sample_index", "unit_index", "segment_index">>,
                <<"segment_index", "sample_index", "unit_index">>}

\* name in zarr_group: the names of the members of the group
GroupContains(group, name) == \E k \in 1..Len(group) : group[k][1] = name

InitZarrWrite ==
    /\ pc = "zw_start"
    /\ BinsIdle
    /\ HistIdle
    /\ PwIdle
    /\ CleanIdle
    /\ EstIdle
    /\ CallIdle
    /\ WinIdle
    /\ CovIdle
    /\ ZarrIdle
    /\ ItIdle
    /\ FrIdle
    /\ ConvIdle
    /\ zw_in \in [what : {"sorting", "recording"},
                  kwargs : ZwKwargs,
                  fields : SpikeFields,
                  num_segments : {1, 2},
                  time_vector : BOOLEAN]
    /\ zw_kwargs = None
    /\ zw_compressor = None
    /\ zw_group = <<>>
    /\ zw_raised = None
    /\ zw_i = 0

zwFrame == <<binVars, histVars, pwVars, cleanVars, estVars, callVars, winVars,
             covVars, zarrVars, itVars, frVars, convVars, zw_in>>

\* lines 367-377: unit_ids stored; the local name compressor is bound only
\* when the kwargs hold no compressor
ZwSortingStart ==
    /\ pc = "zw_start"
    /\ zw_in.what = "sorting"
    /\ zw_group' = <<<<"unit_ids", "none">>>>
    /\ zw_compressor' = IF "compressor" \notin DOMAIN zw_in.kwargs
                        THEN Some(get_default_zarr_compressor) ELSE None
    /\ pc' = "zw_fields"
    /\ UNCHANGED <<zwFrame, zw_kwargs, zw_raised, zw_i>>

\* lines 378-391: one field of the spike vector; reading the unbound local
\* name raises UnboundLocalError
ZwSortingField ==
    /\ pc = "zw_fields"
    /\ zw_i < Len(zw_in.fields)
    /\ LET field == zw_in.fields[zw_i + 1]
       IN  IF field # "segment_index"
           THEN IF zw_compressor = None
                THEN /\ zw_raised' = Some("UnboundLocalError")
                     /\ pc' = "zw_raised"
                     /\ UNCHANGED <<zw_group, zw_i>>
                ELSE /\ zw_group' = Append(zw_group, <<field, zw_compressor[1]>>)
                     /\ zw_i' = zw_i + 1
                     /\ UNCHANGED <<pc, zw_raised>>
           ELSE /\ zw_group' = Append(zw_group, <<"segment_slices", "none">>)
                /\ zw_i' = zw_i + 1
                /\ UNCHANGED <<pc, zw_raised>>
    /\ UNCHANGED <<zwFrame, zw_kwargs, zw_compressor>>

\* line 393: properties and annotations, the call returns
ZwSortingFinish ==
    /\ pc = "zw_fields"
    /\ zw_i >= Len(zw_in.fields)
    /\ pc' = "zw_done"
    /\ UNCHANGED <<zwFrame, zw_kwargs, zw_compressor, zw_group, zw_raised, zw_i>>

\* lines 398-413: channel_ids stored; the default compressor is put into
\* zarr_kwargs when the group has no member named "compressor"
ZwRecordingStart ==
    /\ pc = "zw_start"
    /\ zw_in.what = "recording"
    /\ LET group == <<<<"channel_ids", "none">>>>
       IN  /\ zw_group' = group
           /\ zw_kwargs' = IF ~GroupContains(group, "compressor")
                           THEN ("compressor" :> get_default_zarr_compressor)
                                    @@ zw_in.kwargs
                           ELSE zw_in.kwargs
    /\ pc' = "zw_traces"
    /\ UNCHANGED <<zwFrame, zw_compressor, zw_raised, zw_i>>

\* lines 415-421 and 509-525: add_traces_to_zarr creates the dataset of one
\* segment with the compressor of zarr_kwargs (None when absent)
ZwRecordingTraces ==
    /\ pc = "zw_traces"
    /\ zw_i < zw_in.num_segments
    /\ zw_group' = Append(zw_group,
                          <<"traces_seg", Get(zw_kwargs, "compressor", "none")>>)
    /\ zw_i' = zw_i + 1
    /\ UNCHANGED <<zwFrame, pc, zw_kwargs, zw_compressor, zw_raised>>

\* lines 429-446: time vectors stored with zarr_kwargs["compressor"], then
\* properties and annotations; the call returns
ZwRecordingFinish ==
    /\ pc = "zw_traces"
    /\ zw_i >= zw_in.num_segments
    /\ IF zw_in.time_vector
       THEN IF "compressor" \in DOMAIN zw_kwargs
            THEN /\ zw_group' = Append(zw_group, <<"times_seg", zw_kwargs["compressor"]>>)
                 /\ pc' = "zw_done"
                 /\ UNCHANGED zw_raised
            ELSE /\ zw_raised' = Some("KeyError")
                 /\ pc' = "zw_raised"
                 /\ UNCHANGED zw_group
       ELSE /\ pc' = "zw_done"
            /\ UNCHANGED <<zw_group, zw_raised>>
    /\ UNCHANGED <<zwFrame, zw_kwargs, zw_compressor, zw_i>>

NextZarrWrite ==
    \/ ZwSortingStart
    \/ ZwSortingField
    \/ ZwSortingFinish
    \/ ZwRecordingStart
    \/ ZwRecordingTraces
    \/ ZwRecordingFinish

SpecZarrWrite == InitZarrWrite /\ [][NextZarrWrite]_vars

\* the compressors of the spike and trace datasets created
DataCompressors ==
    {zw_group[k][2] : k \in {j \in 1..Len(zw_group) :
        zw_group[j][1] \in {"sample_index", "unit_index", "traces_seg"}}}

\* C30 as stated: the write never fails; with a compressor among the
\* caller's keyword arguments the spike and trace datasets are created with
\* it, and the default compressor is used only when the caller gives none.
C30_CallerCompressorUsed ==
    /\ pc # "zw_raised"
    /\ pc = "zw_done" =>
          /\ DataCompressors # {}
          /\ DataCompressors =
                {Get(zw_in.kwargs, "compressor", get_default_zarr_compressor)}


============================================================================
